---- MODULE Spec2Model ----
(***************************************************************************)
(* The course-generation WebSocket server of src/src/index.ts.             *)
(*                                                                         *)
(* One run is the execution of the ws.on('message') handler for one        *)
(* inbound message.  The handler is an async function: it runs atomically  *)
(* between its suspension points, which are the backend call               *)
(* model.generateContent, the backoff timer of the retry loop and the      *)
(* persistence call db.course.create.  Each action below is the code that  *)
(* runs from one suspension point to the next.                             *)
(*                                                                         *)
(* JSON values are records; a field the backend left out is a field that   *)
(* is not in the record's DOMAIN, and reading it yields `undefined`.       *)
(*                                                                         *)
(* Line 1 imports the named export WebSocketServer, the API of ws 8: there  *)
(* WebSocket.send without a callback on a socket that is no longer OPEN    *)
(* discards the data and does not throw, and JSON.stringify is total on    *)
(* the values sent here.  A send that fails is therefore a send that is    *)
(* dropped; it is recorded in the run's `dropped` flag.                    *)
(*                                                                         *)
(* Numbers are exact: a number is NaN, Infinity or a fraction in lowest    *)
(* terms, and `* 0.8` and `* 0.2` are the fractions 4/5 and 1/5.  Text is  *)
(* a sequence of characters, so that Number(text), toString() and the      *)
(* normalization chain of generateValidJsonWithRetries are computed        *)
(* character by character.                                                 *)
(*                                                                         *)
(* `sentOn` records, per connection, the runs that have handed an event    *)
(* to its socket; `blk` and `txt` hold the value under the content-block   *)
(* loop and under the normalization chain in the specifications that       *)
(* apply these to inputs of their own.                                     *)
(***************************************************************************)
EXTENDS Integers, Sequences, FiniteSets, TLC

\* ---------------------------------------------------------------- bounds
MaxLessons == 3
MaxSections == 3
MaxRetriesArg == 6
MaxBudgetLessons == 5
MaxHours == 10
MaxChunks == 4
MaxTwoLessons == 2
MaxQuizLessons == 2
MaxLiveLessons == 1
NegativeRetriesArg == 1
MaxFieldLessons == 2
MaxQuestions == 2

\* ------------------------------------------------------ program constants
TOTAL_KEYS == 24
MAX_RETRIES == 5
BASE_DELAY == 1000

VARIABLES run, conn, readyState, sentOn, inbox, blk, txt

vars == <<run, conn, readyState, sentOn, inbox, blk, txt>>

Runs == {1, 2}
Conns == {1, 2}

\* -------------------------------------------------------------- JS values
undefined == "undefined"

\* An object-valued local that has not been assigned.
NoValue == [unassigned |-> TRUE]

Get(v, f) == IF f \in DOMAIN v THEN v[f] ELSE undefined

\* The object {}, which every prompt tells the backend to answer with when
\* it cannot produce the structure asked for.
EmptyObject == [f \in {} |-> undefined]

\* process.env as the server sees it: every slot but the last is set, so a
\* uniform pick can land on a set slot and on an unset one.
ConfiguredKeys == 1 .. (TOTAL_KEYS - 1)

\* ------------------------------------------------------------ JS numbers
\* A number is NaN, Infinity or a non-negative fraction n/d in lowest terms.
NaN == [nan |-> TRUE]
Infinity == [inf |-> TRUE]

RECURSIVE Gcd(_, _)
Gcd(a, b) == IF b = 0 THEN a ELSE Gcd(b, a % b)

Num(n, d) == [n |-> n \div Gcd(n, d), d |-> d \div Gcd(n, d)]

IsFinite(x) == "n" \in DOMAIN x

\* x * (n / d) for a positive factor n/d: totalTimeMinutes * 0.8 is Times(_, 4, 5).
Times(x, n, d) == IF IsFinite(x) THEN Num(x.n * n, x.d * d) ELSE x

\* x / k for an array length k: 0 / 0 is NaN, a positive number over 0 is
\* Infinity, and no division throws.
DividedBy(x, k) ==
  IF ~IsFinite(x) THEN x
  ELSE IF k = 0 THEN (IF x.n = 0 THEN NaN ELSE Infinity)
  ELSE Num(x.n, x.d * k)

\* Text is a sequence of characters.
Digits == <<"0", "1", "2", "3", "4", "5", "6", "7", "8", "9">>

DigitValue(c) == (CHOOSE k \in 1 .. 10 : Digits[k] = c) - 1

IsDigit(c) == \E k \in 1 .. 10 : Digits[k] = c

RECURSIVE DigitsValue(_)
DigitsValue(t) ==
  IF t = <<>> THEN 0
  ELSE 10 * DigitsValue(SubSeq(t, 1, Len(t) - 1)) + DigitValue(t[Len(t)])

\* Number(text) on the texts used here: the empty text is 0, a run of
\* decimal digits is its value, and text with any other character is NaN.
ToNumber(t) ==
  IF \A k \in 1 .. Len(t) : IsDigit(t[k]) THEN Num(DigitsValue(t), 1) ELSE NaN

RECURSIVE DigitsOf(_)
DigitsOf(n) ==
  IF n < 10 THEN <<Digits[n + 1]>> ELSE Append(DigitsOf(n \div 10), Digits[(n % 10) + 1])

\* Number.prototype.toString: an integer prints as its digits; a fraction
\* prints as its decimal expansion, kept here as the fraction it expands.
NumberToString(x) ==
  IF ~IsFinite(x) THEN (IF x = NaN THEN <<"N", "a", "N">>
                                   ELSE <<"I", "n", "f", "i", "n", "i", "t", "y">>)
  ELSE IF x.d = 1 THEN DigitsOf(x.n)
  ELSE <<"decimal", DigitsOf(x.n), DigitsOf(x.d)>>

\* ------------------------------------------------------- inbound requests
GoodRequest == [topic |-> "topic", userId |-> "user"]

RequestPool ==
  { [parses |-> FALSE],
    [parses |-> TRUE, body |-> GoodRequest],
    [parses |-> TRUE, body |-> [userId |-> "user"]],
    [parses |-> TRUE, body |-> [topic |-> "topic"]],
    [parses |-> TRUE, body |-> [topic |-> "", userId |-> "user"]] }

\* Requests that differ in personalization.timeCommitment: no
\* personalization, personalization without the field, the empty text, text
\* that is no number, and the hour counts 1 .. MaxHours as text.
TimeTexts ==
  { <<>>, <<"a", "b", "c">> } \cup { DigitsOf(h) : h \in 1 .. MaxHours }

TimedRequestPool ==
  { [parses |-> TRUE, body |-> GoodRequest],
    [parses |-> TRUE,
     body |-> [topic |-> "topic", userId |-> "user",
               personalization |-> [level |-> "beginner"]]] }
    \cup { [parses |-> TRUE,
            body |-> [topic |-> "topic", userId |-> "user",
                      personalization |-> [timeCommitment |-> t]]] : t \in TimeTexts }

\* Lines 60-72: `personalization = {}` and `timeCommitment = ''`.
TimeCommitmentOf(body) ==
  LET personalization == IF "personalization" \in DOMAIN body
                           THEN body.personalization ELSE EmptyObject
  IN  IF "timeCommitment" \in DOMAIN personalization
        THEN personalization.timeCommitment ELSE <<>>

\* `!topic || !userId` of line 74: undefined and the empty string are falsy.
Falsy(x) == x = undefined \/ x = ""

\* ------------------------------------------------------ backend responses
\* What a backend response parses to, after normalization, per stage.
LessonStub(i) == [title |-> <<"lesson", i>>, duration |-> <<"weeks", i>>]

SyllabusOf(n) ==
  [title |-> <<"course">>, description |-> <<"about">>,
   lessons |-> [i \in 1 .. n |-> LessonStub(i)]]

SyllabusPool ==
  { SyllabusOf(n) : n \in 0 .. MaxLessons } \cup { EmptyObject }

ContextOf(i) ==
  [title |-> <<"context", i>>, objective |-> <<"objective", i>>]

TextBlock == [type |-> "TEXT", content |-> "prose", order |-> 7]
CodeBlock == [type |-> "CODE", content |-> "source"]
MathBlock == [type |-> "MATH", content |-> "formula", order |-> 2]
GraphBlock == [type |-> "GRAPH", content |-> "graphObject", order |-> 1]
VideoBlock == [type |-> "VIDEO", content |-> "clip", order |-> 1]
EmptyBlock == [type |-> "TEXT", order |-> 3]
UntypedBlock == [content |-> "stray"]

SectionOf(t, bs) == [title |-> <<"section", t>>, contentBlocks |-> bs]

\* Sections a section-content response is made of.
SectionPool ==
  { SectionOf(1, <<TextBlock, CodeBlock>>),
    SectionOf(2, <<GraphBlock, MathBlock>>),
    SectionOf(3, <<TextBlock, TextBlock>>),
    SectionOf(4, <<VideoBlock>>),
    SectionOf(5, <<EmptyBlock, UntypedBlock>>),
    SectionOf(6, <<>>),
    [title |-> <<"section", 7>>] }

GoodSections ==
  [sections |-> << SectionOf(1, <<TextBlock, CodeBlock>>),
                   SectionOf(2, <<GraphBlock>>) >>]

HalfSections ==
  [sections |-> << SectionOf(1, <<TextBlock>>), [title |-> <<"section", 7>>] >>]

PipelineSectionsPool ==
  { GoodSections, HalfSections, EmptyObject }

Question(k) ==
  [number |-> k, question |-> <<"q", k>>, type |-> "MCQ",
   options |-> <<"a", "b">>, marks |-> 5, correctAnswers |-> <<"a">>]

GoodQuiz ==
  [title |-> <<"quiz">>, duration |-> 10, totalMarks |-> 10, passingMarks |-> 6,
   questions |-> << Question(1), Question(2) >>]

QuizPool == { GoodQuiz, EmptyObject }

PostCoursePool ==
  { [summary |-> <<"summary">>, keyPoints |-> <<"keyPoints">>,
     analytics |-> <<"analytics">>],
    EmptyObject }

DirectPool == { [answer |-> k] : k \in 1 .. 4 }

\* Responses of the prompted shape, each carrying the run r whose call it
\* answers and, for the stages of a lesson, the lesson i.
LessonStubFrom(r, i) == [title |-> <<"lesson", r, i>>, duration |-> <<"weeks", r, i>>]

SyllabusFrom(r, n) ==
  [title |-> <<"course", r>>, description |-> <<"about", r>>,
   lessons |-> [i \in 1 .. n |-> LessonStubFrom(r, i)]]

ContextFrom(r, i) ==
  [title |-> <<"context", r, i>>, objective |-> <<"objective", r, i>>]

SectionsFrom(r, i) ==
  [sections |->
     << [title |-> <<"section", r, i>>,
         contentBlocks |-> << [type |-> "TEXT", content |-> <<"prose", r, i>>, order |-> 1],
                              [type |-> "CODE", content |-> <<"source", r, i>>] >>] >>]

QuizFrom(r, i) ==
  [title |-> <<"quiz", r, i>>, duration |-> 10, totalMarks |-> 10, passingMarks |-> 6,
   questions |-> << [number |-> 1, question |-> <<"q", r, i>>, type |-> "TRUE_FALSE",
                     options |-> <<"True", "False">>, marks |-> 10,
                     correctAnswers |-> <<"True">>] >>]

\* A quiz whose questions carry the numbers in `nums`, in that order.
QuizNumbered(r, i, nums) ==
  [QuizFrom(r, i) EXCEPT
     !.questions = [k \in 1 .. Len(nums) |->
                      [number |-> nums[k], question |-> <<"q", r, i, k>>,
                       type |-> "TRUE_FALSE", options |-> <<"True", "False">>,
                       marks |-> 5, correctAnswers |-> <<"True">>]]]

\* The numberings the backend may give the questions of a quiz: up to
\* MaxQuestions questions, each with a number of 1 .. MaxQuestions + 1.
Numberings ==
  UNION { [1 .. m -> 1 .. MaxQuestions + 1] : m \in 0 .. MaxQuestions }

\* The fields of a question that the create mapping gives a default.
OptionalFields == {"options", "correctAnswers", "explanation", "rubric"}

\* A question that has, of the optional fields, those in `present`.
QuestionWith(r, i, present, explanation) ==
  [f \in {"number", "question", "type", "marks"} \cup present |->
     CASE f = "number" -> 1
       [] f = "question" -> <<"q", r, i>>
       [] f = "type" -> "TRUE_FALSE"
       [] f = "marks" -> 10
       [] f = "options" -> <<"True", "False">>
       [] f = "correctAnswers" -> <<"True">>
       [] f = "explanation" -> explanation
       [] f = "rubric" -> <<"criterion">>]

\* Quizzes of one question with any of the optional fields left out; an
\* explanation that is present is a text or the empty text.
QuizFieldsPool(r, i) ==
  { [QuizFrom(r, i) EXCEPT !.questions = <<QuestionWith(r, i, present, e)>>] :
      present \in SUBSET OptionalFields, e \in {"because", ""} }

\* The grades the post-course prompt lets the backend choose from.
Grades == {"EXCELLENT", "GOOD", "AVERAGE", "NEEDS_IMPROVEMENT"}

AnalyticsFrom(r, score, grade) ==
  [timeSpentTotal |-> 60 * r, averageScore |-> score, totalQuizzes |-> r, grade |-> grade]

PostCourseFrom(r, analytics) ==
  [summary |-> <<"summary", r>>, keyPoints |-> <<"keyPoints", r>>,
   analytics |-> analytics]

\* The scores and grades the backend may put into the analytics object.
Scores == {90, 45}

AnalyticsPool(r) == { AnalyticsFrom(r, sc, g) : sc \in Scores, g \in Grades }

\* What the backend answers to the prompt of run s, for syllabi of the
\* lesson counts in `counts` and analytics drawn by `analytics`.
AnswerPool(s, counts, analytics) ==
  CASE s.stage = "syllabus" -> { SyllabusFrom(s.self, n) : n \in counts }
    [] s.stage = "context" -> { ContextFrom(s.self, s.idx) }
    [] s.stage = "sections" -> { SectionsFrom(s.self, s.idx) }
    [] s.stage = "quiz" -> { QuizFrom(s.self, s.idx) }
    [] s.stage = "postCourse" -> { PostCourseFrom(s.self, a) : a \in analytics }
    [] OTHER -> DirectPool

\* ---------------------------------------------------- text normalization
\* The characters a response text is made of here: letters, the opening
\* brace, and by name the backtick BT, CR, NUL, BEL (a control character),
\* LF and the space SP.
BT == "BT"
CR == "CR"
NUL == "NUL"
BEL == "BEL"
LF == "LF"
SP == "SP"

Fence == <<BT, BT, BT>>
FenceJson == Fence \o <<"j", "s", "o", "n">>

StartsWith(t, p) == Len(p) <= Len(t) /\ SubSeq(t, 1, Len(p)) = p

Drop(t, k) == SubSeq(t, k + 1, Len(t))

RECURSIVE StripFences(_)
\* .replace(/```json|```/g, ''): leftmost matches, the longer alternative
\* first, without rescanning what a removal joins.
StripFences(t) ==
  IF t = <<>> THEN <<>>
  ELSE IF StartsWith(t, FenceJson) THEN StripFences(Drop(t, Len(FenceJson)))
  ELSE IF StartsWith(t, Fence) THEN StripFences(Drop(t, Len(Fence)))
  ELSE <<Head(t)>> \o StripFences(Tail(t))

Without(t, S) == SelectSeq(t, LAMBDA c : c \notin S)

RECURSIVE StripLead(_)
\* .replace(/^[^{\[]+/, '')
StripLead(t) ==
  IF t = <<>> \/ Head(t) \in {"{", "["} THEN t ELSE StripLead(Tail(t))

\* [\x00-\x1F\x7F] on the characters above.
ControlChars == {CR, NUL, BEL, LF}

\* .replace(/[\x00-\x1F\x7F]/g, c => c === '\n' || c === '\t' ? c : '')
StripControl(t) == Without(t, ControlChars \ {LF})

WhiteSpace == {SP, LF, CR}

RECURSIVE TrimStart(_)
TrimStart(t) ==
  IF t = <<>> \/ Head(t) \notin WhiteSpace THEN t ELSE TrimStart(Tail(t))

RECURSIVE TrimEnd(_)
TrimEnd(t) ==
  IF t = <<>> \/ t[Len(t)] \notin WhiteSpace THEN t
  ELSE TrimEnd(SubSeq(t, 1, Len(t) - 1))

Trim(t) == TrimEnd(TrimStart(t))

\* Lines 35-44, in the order of the chain.
Normalize(t) ==
  Trim(StripControl(StripLead(Without(Without(StripFences(t), {CR}), {NUL}))))

\* Response texts: up to MaxChunks fragments, one after the other.
TextChunks ==
  { Fence, FenceJson, <<BT>>, <<BT, BT>>, <<"{">>, <<"a">>,
    <<CR>>, <<NUL>>, <<BEL>>, <<LF>>, <<SP>> }

RECURSIVE TextsOf(_)
TextsOf(k) ==
  IF k = 0 THEN { <<>> }
  ELSE LET shorter == TextsOf(k - 1)
       IN  shorter \cup { a \o c : a \in shorter, c \in TextChunks }

TxtOff == [pc |-> "off"]

\* ---------------------------------------------------------------- events
SyllabusStarted == [step |-> "syllabus", status |-> "started"]
SyllabusCompleted(v) == [step |-> "syllabus", status |-> "completed", data |-> v]
LessonStarted(t) == [step |-> "lesson", status |-> "started", data |-> [title |-> t]]
ContentBlockEvent(lt, st, cb) ==
  [step |-> "contentBlock", lessonTitle |-> lt, sectionTitle |-> st, contentBlock |-> cb]
QuizCompleted(v) == [step |-> "quiz", status |-> "completed", data |-> v]
CompletedEvent(id) == [step |-> "completed", courseId |-> id]
ErrorEvent == [step |-> "error", message |-> "Error generating course"]
Notice(t) == [notice |-> t]

\* ----------------------------------------------------------- run records
IdleRun(r) ==
  [self |-> r, pc |-> "idle", stage |-> "none", idx |-> 0,
   attempt |-> 0, maxRetries |-> MAX_RETRIES, calls |-> 0, gens |-> 0,
   waited |-> 0, delay |-> 0, fails |-> 0, lastErr |-> "none", warned |-> <<>>,
   errorAttempts |-> 0, pending |-> {}, parsed |-> {},
   request |-> NoValue, keyCalls |-> 0, userId |-> undefined,
   timeCommitment |-> <<>>, totalTimeMinutes |-> NoValue,
   lessonTimePerLesson |-> NoValue, quizTimePerLesson |-> NoValue, prompts |-> {},
   quizBlocks |-> {},
   syllabus |-> NoValue, lessonTitle |-> <<>>, lessonDuration |-> <<>>,
   context |-> NoValue, allContentBlocks |-> <<>>, threw |-> FALSE,
   lessons |-> <<>>, postCourse |-> NoValue,
   emitted |-> <<>>, dropped |-> FALSE, persisted |-> <<>>,
   closeCalls |-> 0, closedAt |-> 0, nextId |-> 1, error |-> "none", result |-> NoValue]

\* sendData: hands the event to the socket; on a socket that is not OPEN the
\* event is discarded.
Send(s, o, data) ==
  [s EXCEPT !.emitted = Append(@, data), !.dropped = @ \/ ~o]

\* ws.close(): closedAt is the number of messages handed to the socket before.
Close(s) == [s EXCEPT !.closeCalls = @ + 1, !.closedAt = Len(s.emitted)]

\* Variant of the catch block that closes without telling the client.
CatchSilent(s, o, err) ==
  [Close([s EXCEPT !.error = err]) EXCEPT !.pc = "done"]

\* Variant of the catch block that forwards the cause to the client.
CatchVerbose(s, o, err) ==
  [Close(Send([s EXCEPT !.error = err], o, [step |-> "error", message |-> err]))
     EXCEPT !.pc = "done"]

\* The catch block of the handler: log, send the error event, close.
Catch(s, o, err) ==
  [Close(Send([s EXCEPT !.error = err], o, ErrorEvent)) EXCEPT !.pc = "done"]

\* -------------------------------------------- generateValidJsonWithRetries
\* Variant of the loop that tests its condition after the first attempt.
GenLoopAtLeastOnce(s) ==
  IF s.attempt <= s.maxRetries \/ s.attempt = 1
    THEN [s EXCEPT !.pc = "call", !.calls = @ + 1, !.lastErr = "none",
                   !.pending = @ \cup {<<s.stage, s.idx, s.attempt>>}]
    ELSE [s EXCEPT !.pc = "returned", !.lastErr = "none"]

\* The loop test and the backend call of one attempt.  With the loop test
\* false the function falls off its end and resolves to undefined.
GenLoop(s) ==
  IF s.attempt <= s.maxRetries
    THEN [s EXCEPT !.pc = "call", !.calls = @ + 1, !.lastErr = "none",
                   !.pending = @ \cup {<<s.stage, s.idx, s.attempt>>}]
    ELSE [s EXCEPT !.pc = "returned", !.lastErr = "none"]

\* `${field || placeholder}` of the prompt templates: the empty text, the
\* only falsy text, is replaced by the placeholder.
Render(text, placeholder) == IF text = <<>> THEN placeholder ELSE text

\* The placeholder of the time line of every stage prompt.
Flexible == <<"F", "l", "e", "x", "i", "b", "l", "e">>

\* Variant of the prompt construction that hands every prompt the
\* request's own timeCommitment text.
PromptTimeRaw(s, stage) == s.timeCommitment

\* The timeCommitment argument of the prompt of a stage: the request's own
\* text for the syllabus and post-course prompts, the per-lesson budgets as
\* text for the prompts of a lesson.
PromptTime(s, stage) ==
  CASE stage \in {"context", "sections"} -> NumberToString(s.lessonTimePerLesson)
    [] stage = "quiz" -> NumberToString(s.quizTimePerLesson)
    [] OTHER -> s.timeCommitment

\* The prompt is built, then generateValidJsonWithRetries is entered.
GenEnter(s, stage, idx) ==
  GenLoop([s EXCEPT !.stage = stage, !.idx = idx, !.gens = @ + 1,
                    !.attempt = 1, !.waited = 0, !.delay = 0,
                    !.fails = 0,
                    !.prompts = @ \cup {[stage |-> stage, idx |-> idx,
                                         timeCommitment |-> PromptTime(s, stage)]},
                    !.quizBlocks =
                       IF stage = "quiz"
                         THEN @ \cup {[idx |-> idx,
                                       contentBlocks |-> s.allContentBlocks]}
                         ELSE @])

\* Variant in which the function never settles after its last attempt.
GenThrowHang(s, o) == [s EXCEPT !.pc = "hung"]

\* An exception leaving generateValidJsonWithRetries: into the handler's
\* catch block, or to the caller of a direct call.
GenThrow(s, o) ==
  IF s.stage = "direct"
    THEN [s EXCEPT !.pc = "threw", !.error = "Failed after attempts",
                   !.errorAttempts = s.maxRetries]
    ELSE Catch([s EXCEPT !.errorAttempts = s.maxRetries], o,
               "Failed after attempts")

\* Variant of the catch branch that gives up one attempt early.
GenCatchEarly(s, o, kind) ==
  LET s1 == [s EXCEPT !.pending = @ \ {<<s.stage, s.idx, s.attempt>>},
                      !.lastErr = kind, !.fails = @ + 1]
  IN  IF s.attempt >= s.maxRetries - 1
        THEN GenThrow(s1, o)
        ELSE [s1 EXCEPT !.pc = "backoff", !.delay = BASE_DELAY * s.attempt,
                        !.waited = @ + BASE_DELAY * s.attempt]

\* Variant of the catch branch that waits the same time after every attempt.
GenCatchFlat(s, o, kind) ==
  LET s1 == [s EXCEPT !.pending = @ \ {<<s.stage, s.idx, s.attempt>>},
                      !.lastErr = kind, !.fails = @ + 1]
  IN  IF s.attempt = s.maxRetries
        THEN GenThrow(s1, o)
        ELSE [s1 EXCEPT !.pc = "backoff", !.delay = BASE_DELAY,
                        !.waited = @ + BASE_DELAY]

\* Variant of the catch branch that retries unparseable text only: a call
\* that throws ends the generation call at once.
GenCatchBackendFatal(s, o, kind) ==
  LET s1 == [s EXCEPT !.pending = @ \ {<<s.stage, s.idx, s.attempt>>},
                      !.lastErr = kind, !.fails = @ + 1]
  IN  IF s.attempt = s.maxRetries \/ kind = "backend"
        THEN GenThrow(s1, o)
        ELSE [s1 EXCEPT !.pc = "backoff", !.delay = BASE_DELAY * s.attempt,
                        !.waited = @ + BASE_DELAY * s.attempt]

\* The catch branch of an attempt: the timer of line 50 is requested for
\* `delay` milliseconds; `waited` is the sum of the delays of this call.
GenCatch(s, o, kind) ==
  LET s1 == [s EXCEPT !.pending = @ \ {<<s.stage, s.idx, s.attempt>>},
                      !.lastErr = kind, !.fails = @ + 1]
  IN  IF s.attempt = s.maxRetries
        THEN GenThrow(s1, o)
        ELSE [s1 EXCEPT !.pc = "backoff", !.delay = BASE_DELAY * s.attempt,
                        !.waited = @ + BASE_DELAY * s.attempt]

\* --------------------------------------------------- content block loop
Uuid(s) == <<s.self, s.nextId>>

\* Variant of the block construction that streams every block with order 0.
MakeBlockUnordered(block, id) ==
  [id |-> id,
   order |-> 0,
   type |-> Get(block, "type"),
   text |-> IF Get(block, "type") = "TEXT" THEN Get(block, "content") ELSE undefined,
   code |-> IF Get(block, "type") = "CODE" THEN Get(block, "content") ELSE undefined,
   math |-> IF Get(block, "type") = "MATH" THEN Get(block, "content") ELSE undefined,
   graph |-> IF Get(block, "type") = "GRAPH" THEN Get(block, "content") ELSE undefined]

MakeBlock(block, id) ==
  [id |-> id,
   order |-> IF "order" \in DOMAIN block THEN block.order ELSE 0,
   type |-> Get(block, "type"),
   text |-> IF Get(block, "type") = "TEXT" THEN Get(block, "content") ELSE undefined,
   code |-> IF Get(block, "type") = "CODE" THEN Get(block, "content") ELSE undefined,
   math |-> IF Get(block, "type") = "MATH" THEN Get(block, "content") ELSE undefined,
   graph |-> IF Get(block, "type") = "GRAPH" THEN Get(block, "content") ELSE undefined]

\* Variant of the loop body that streams every block twice.
PushBlockTwice(s, o, section, block) ==
  LET contentBlock == MakeBlock(block, Uuid(s))
      event == ContentBlockEvent(s.lessonTitle, Get(section, "title"), contentBlock)
      s1 == Send(Send([s EXCEPT !.nextId = @ + 1], o, event), o, event)
  IN  [s1 EXCEPT !.allContentBlocks = Append(@, contentBlock)]

PushBlock(s, o, section, block) ==
  LET contentBlock == MakeBlock(block, Uuid(s))
      s1 == Send([s EXCEPT !.nextId = @ + 1], o,
                 ContentBlockEvent(s.lessonTitle, Get(section, "title"), contentBlock))
  IN  [s1 EXCEPT !.allContentBlocks = Append(@, contentBlock)]

RECURSIVE FlattenBlocks(_, _, _, _)
FlattenBlocks(s, o, section, k) ==
  IF k > Len(section.contentBlocks)
    THEN s
    ELSE FlattenBlocks(PushBlock(s, o, section, section.contentBlocks[k]),
                       o, section, k + 1)

RECURSIVE FlattenSections(_, _, _, _)
FlattenSections(s, o, sections, j) ==
  IF j > Len(sections)
    THEN s
    ELSE IF "contentBlocks" \notin DOMAIN sections[j]
      THEN [s EXCEPT !.threw = TRUE]
      ELSE FlattenSections(FlattenBlocks(s, o, sections[j], 1), o, sections, j + 1)

\* Variant in which the accumulator is shared by the lessons of a run.
FlattenAllKeep(s, o, sectionContent) ==
  LET s1 == [s EXCEPT !.threw = FALSE]
  IN  IF "sections" \notin DOMAIN sectionContent
        THEN [s1 EXCEPT !.threw = TRUE]
        ELSE FlattenSections(s1, o, sectionContent.sections, 1)

\* Lines 145-168: the accumulator starts empty, then the two nested loops.
FlattenAll(s, o, sectionContent) ==
  LET s1 == [s EXCEPT !.allContentBlocks = <<>>, !.threw = FALSE]
  IN  IF "sections" \notin DOMAIN sectionContent
        THEN [s1 EXCEPT !.threw = TRUE]
        ELSE FlattenSections(s1, o, sectionContent.sections, 1)

\* ------------------------------------------------- persistence payload
\* Variant of the create mapping that trusts the order the backend supplied.
ContentBlocksCreateHint(blocks) ==
  [p \in 1 .. Len(blocks) |->
     [order |-> blocks[p].order, type |-> blocks[p].type,
      text |-> blocks[p].text, code |-> blocks[p].code,
      math |-> blocks[p].math, graph |-> blocks[p].graph]]

ContentBlocksCreate(blocks) ==
  [p \in 1 .. Len(blocks) |->
     [order |-> (p - 1) + 1, type |-> blocks[p].type,
      text |-> blocks[p].text, code |-> blocks[p].code,
      math |-> blocks[p].math, graph |-> blocks[p].graph]]

\* Variant of the question mapping that writes the defaults whatever the
\* backend returned.
QuestionsCreateDefaults(questions) ==
  [p \in 1 .. Len(questions) |->
     LET q == questions[p]
     IN  [number |-> Get(q, "number"), question |-> Get(q, "question"),
          type |-> Get(q, "type"), options |-> <<>>,
          marks |-> Get(q, "marks"),
          correctAnswers |-> <<>>,
          explanation |-> "Explanation not provided.",
          rubric |-> <<>>]]

OrElse(q, f, dflt) == IF f \in DOMAIN q THEN q[f] ELSE dflt

QuestionsCreate(questions) ==
  [p \in 1 .. Len(questions) |->
     LET q == questions[p]
     IN  [number |-> Get(q, "number"), question |-> Get(q, "question"),
          type |-> Get(q, "type"), options |-> OrElse(q, "options", <<>>),
          marks |-> Get(q, "marks"),
          correctAnswers |-> OrElse(q, "correctAnswers", <<>>),
          explanation |-> OrElse(q, "explanation", "Explanation not provided."),
          rubric |-> OrElse(q, "rubric", <<>>)]]

\* Variant of the lesson mapping that titles the lesson after its syllabus
\* stub and counts lessons from 1.
LessonCreateFromStub(l, p) ==
  [title |-> l.lessonTitle,
   description |-> Get(l.context, "objective"),
   duration |-> l.lessonDuration,
   order |-> p,
   contentBlocks |-> ContentBlocksCreate(l.allContentBlocks),
   quizz |-> [title |-> <<Get(l.context, "title"), " Quiz">>,
              duration |-> Get(l.quizJson, "duration"),
              totalMarks |-> Get(l.quizJson, "totalMarks"),
              passingMarks |-> Get(l.quizJson, "passingMarks"),
              isCompleted |-> FALSE, gainedMarks |-> 0, timeTaken |-> 0,
              questions |-> QuestionsCreate(l.quizJson.questions)]]

LessonCreate(l, p) ==
  [title |-> Get(l.context, "title"),
   description |-> Get(l.context, "objective"),
   duration |-> l.lessonDuration,
   order |-> p - 1,
   contentBlocks |-> ContentBlocksCreate(l.allContentBlocks),
   quizz |-> [title |-> <<Get(l.context, "title"), " Quiz">>,
              duration |-> Get(l.quizJson, "duration"),
              totalMarks |-> Get(l.quizJson, "totalMarks"),
              passingMarks |-> Get(l.quizJson, "passingMarks"),
              isCompleted |-> FALSE, gainedMarks |-> 0, timeTaken |-> 0,
              questions |-> QuestionsCreate(l.quizJson.questions)]]

\* Building the argument of db.course.create throws when a quiz has no
\* `questions` to map over.
CreateThrows(s) ==
  \E p \in 1 .. Len(s.lessons) : "questions" \notin DOMAIN s.lessons[p].quizJson

CourseCreateData(s) ==
  [title |-> Get(s.syllabus, "title"),
   description |-> Get(s.syllabus, "description"),
   user |-> s.userId,
   lessons |-> [p \in 1 .. Len(s.lessons) |-> LessonCreate(s.lessons[p], p)],
   summary |-> Get(s.postCourse, "summary"),
   keyPoints |-> Get(s.postCourse, "keyPoints"),
   analytics |-> Get(s.postCourse, "analytics")]

\* ------------------------------------------------ the message handler
\* Variant of the lesson loop that stops one lesson short.
LessonLoopShort(s, o, i) ==
  IF i >= Len(s.syllabus.lessons)
    THEN GenEnter(Send(s, o, Notice("Generating post-course content...")),
                  "postCourse", 0)
    ELSE LET lessonObj == s.syllabus.lessons[i]
             s1 == [s EXCEPT !.lessonTitle = Get(lessonObj, "title"),
                             !.lessonDuration = Get(lessonObj, "duration")]
         IN  GenEnter(Send(s1, o, LessonStarted(s1.lessonTitle)), "context", i)

\* for (const lessonObj of syllabusJson.lessons): iteration i, up to the
\* context call; past the last lesson, on to the post-course call.
LessonLoop(s, o, i) ==
  IF i > Len(s.syllabus.lessons)
    THEN GenEnter(Send(s, o, Notice("Generating post-course content...")),
                  "postCourse", 0)
    ELSE LET lessonObj == s.syllabus.lessons[i]
             s1 == [s EXCEPT !.lessonTitle = Get(lessonObj, "title"),
                             !.lessonDuration = Get(lessonObj, "duration")]
         IN  GenEnter(Send(s1, o, LessonStarted(s1.lessonTitle)), "context", i)

\* Lines 96-99.
Budgets(s, v) ==
  LET totalTimeMinutes == Times(ToNumber(s.timeCommitment), 60, 1)
      numberOfLessons == Len(v.lessons)
  IN  [s EXCEPT !.totalTimeMinutes = totalTimeMinutes,
                !.lessonTimePerLesson =
                   DividedBy(Times(totalTimeMinutes, 4, 5), numberOfLessons),
                !.quizTimePerLesson =
                   DividedBy(Times(totalTimeMinutes, 1, 5), numberOfLessons)]

\* Variant in which a send on a socket that is not OPEN throws.
AfterSyllabusGuarded(s, o, v) ==
  IF "lessons" \notin DOMAIN v
    THEN Catch([s EXCEPT !.syllabus = v], o, "TypeError")
    ELSE IF ~o
      THEN Catch(Budgets([s EXCEPT !.syllabus = v, !.lessons = <<>>], v), o,
                 "SendError")
      ELSE LessonLoop(Send(Budgets([s EXCEPT !.syllabus = v, !.lessons = <<>>], v), o,
                           SyllabusCompleted(v)),
                      o, 1)

AfterSyllabus(s, o, v) ==
  IF "lessons" \notin DOMAIN v
    THEN Catch([s EXCEPT !.syllabus = v,
                         !.totalTimeMinutes =
                            Times(ToNumber(s.timeCommitment), 60, 1)],
               o, "TypeError")
    ELSE LessonLoop(Send(Budgets([s EXCEPT !.syllabus = v, !.lessons = <<>>], v), o,
                         SyllabusCompleted(v)),
                    o, 1)

\* Variant that asks for the quiz before the section content.
AfterContextSkip(s, o, v) ==
  GenEnter([s EXCEPT !.context = v], "quiz", s.idx)

\* Variant that tells the client when the context needed more than one
\* attempt.
AfterContextNote(s, o, v) ==
  IF s.attempt > 1
    THEN GenEnter(Send([s EXCEPT !.context = v], o, Notice("Recovered after retry.")),
                  "sections", s.idx)
    ELSE GenEnter([s EXCEPT !.context = v], "sections", s.idx)

AfterContext(s, o, v) ==
  GenEnter([s EXCEPT !.context = v], "sections", s.idx)

\* Variant that asks once more for the context of the first lesson after
\* its section content has arrived.
AfterSectionsRedo(s, o, v) ==
  IF s.gens = 3
    THEN GenEnter(s, "context", s.idx)
    ELSE LET s1 == FlattenAll(s, o, v)
         IN  IF s1.threw THEN Catch(s1, o, "TypeError")
                         ELSE GenEnter(s1, "quiz", s.idx)

AfterSections(s, o, v) ==
  LET s1 == FlattenAll(s, o, v)
  IN  IF s1.threw THEN Catch(s1, o, "TypeError") ELSE GenEnter(s1, "quiz", s.idx)

\* Variant that asks for the quiz of the first lesson a second time.
AfterQuizAgain(s, o, v) ==
  IF s.gens = 4
    THEN GenEnter(s, "quiz", s.idx)
    ELSE LET s1 == Send(s, o, QuizCompleted(v))
             s2 == [s1 EXCEPT !.lessons =
                      Append(@, [lessonTitle |-> s.lessonTitle,
                                 lessonDuration |-> s.lessonDuration,
                                 context |-> s.context,
                                 allContentBlocks |-> s.allContentBlocks,
                                 quizJson |-> v])]
         IN  LessonLoop(s2, o, s.idx + 1)

\* Variant that forgets to append the lesson record.
AfterQuizDrop(s, o, v) ==
  LessonLoop(Send(s, o, QuizCompleted(v)), o, s.idx + 1)

\* Variant that announces the quiz after it has moved on to the next lesson.
AfterQuizLate(s, o, v) ==
  LET s2 == [s EXCEPT !.lessons =
               Append(@, [lessonTitle |-> s.lessonTitle,
                          lessonDuration |-> s.lessonDuration,
                          context |-> s.context,
                          allContentBlocks |-> s.allContentBlocks,
                          quizJson |-> v])]
  IN  Send(LessonLoop(s2, o, s.idx + 1), o, QuizCompleted(v))

\* Variant that puts the new lesson record in front of the earlier ones.
AfterQuizPrepend(s, o, v) ==
  LET s1 == Send(s, o, QuizCompleted(v))
      s2 == [s1 EXCEPT !.lessons =
               <<[lessonTitle |-> s.lessonTitle,
                  lessonDuration |-> s.lessonDuration,
                  context |-> s.context,
                  allContentBlocks |-> s.allContentBlocks,
                  quizJson |-> v]>> \o @]
  IN  LessonLoop(s2, o, s.idx + 1)

AfterQuiz(s, o, v) ==
  LET s1 == Send(s, o, QuizCompleted(v))
      s2 == [s1 EXCEPT !.lessons =
               Append(@, [lessonTitle |-> s.lessonTitle,
                          lessonDuration |-> s.lessonDuration,
                          context |-> s.context,
                          allContentBlocks |-> s.allContentBlocks,
                          quizJson |-> v])]
  IN  LessonLoop(s2, o, s.idx + 1)

\* Variant that gives up before persistence when the client has gone.
AfterPostCourseChecked(s, o, v) ==
  LET s1 == Send([s EXCEPT !.postCourse = v], o, Notice("Saving to database..."))
  IN  IF ~o \/ CreateThrows(s1)
        THEN Catch(s1, o, "TypeError")
        ELSE [s1 EXCEPT !.pc = "db", !.persisted = Append(@, CourseCreateData(s1))]

AfterPostCourse(s, o, v) ==
  LET s1 == Send([s EXCEPT !.postCourse = v], o, Notice("Saving to database..."))
  IN  IF CreateThrows(s1)
        THEN Catch(s1, o, "TypeError")
        ELSE [s1 EXCEPT !.pc = "db", !.persisted = Append(@, CourseCreateData(s1))]

\* What runs when a generation call resolves with the parsed value v.
Continue(s, o, v) ==
  CASE s.stage = "syllabus" -> AfterSyllabus(s, o, v)
    [] s.stage = "context" -> AfterContext(s, o, v)
    [] s.stage = "sections" -> AfterSections(s, o, v)
    [] s.stage = "quiz" -> AfterQuiz(s, o, v)
    [] s.stage = "postCourse" -> AfterPostCourse(s, o, v)
    [] OTHER -> [s EXCEPT !.pc = "returned", !.result = v]

\* The values the backend's text can parse to, given the prompt sent.
ParsedPool(s) ==
  CASE s.stage = "syllabus" -> SyllabusPool
    [] s.stage = "context" -> { ContextOf(s.idx) }
    [] s.stage = "sections" -> PipelineSectionsPool
    [] s.stage = "quiz" -> QuizPool
    [] s.stage = "postCourse" -> PostCoursePool
    [] OTHER -> DirectPool

\* Variant that picks the credential before it validates the request.
OnMessageKeyFirst(s0, o, req, keyIndex) ==
  LET s == [s0 EXCEPT !.request = req]
  IN
  IF ~req.parses
    THEN Catch(s, o, "SyntaxError")
    ELSE LET s1 == [s EXCEPT !.keyCalls = @ + 1, !.userId = Get(req.body, "userId"),
                             !.timeCommitment = TimeCommitmentOf(req.body)]
         IN  IF keyIndex \notin ConfiguredKeys
               THEN Catch(s1, o, "Missing API key")
               ELSE IF Falsy(Get(req.body, "topic")) \/ Falsy(Get(req.body, "userId"))
                 THEN Catch(s1, o, "Missing topic or userId")
                 ELSE GenEnter(Send(Send(s1, o, SyllabusStarted), o,
                                    Notice("Generating syllabus...")),
                               "syllabus", 0)

\* Lines 59-94: parse, validate, pick a credential, announce, first call.
\* Variant that announces the syllabus stage before it picks the credential.
OnMessageAnnounceFirst(s0, o, req, keyIndex) ==
  LET s == [s0 EXCEPT !.request = req]
  IN
  IF ~req.parses
    THEN Catch(s, o, "SyntaxError")
    ELSE IF Falsy(Get(req.body, "topic")) \/ Falsy(Get(req.body, "userId"))
      THEN Catch(s, o, "Missing topic or userId")
      ELSE LET s1 == [Send(s, o, SyllabusStarted) EXCEPT
                        !.keyCalls = @ + 1, !.userId = req.body.userId,
                        !.timeCommitment = TimeCommitmentOf(req.body)]
           IN  IF keyIndex \notin ConfiguredKeys
                 THEN Catch(s1, o, "Missing API key")
                 ELSE GenEnter(Send(s1, o, Notice("Generating syllabus...")),
                               "syllabus", 0)

OnMessage(s0, o, req, keyIndex) ==
  LET s == [s0 EXCEPT !.request = req]
  IN
  IF ~req.parses
    THEN Catch(s, o, "SyntaxError")
    ELSE IF Falsy(Get(req.body, "topic")) \/ Falsy(Get(req.body, "userId"))
      THEN Catch(s, o, "Missing topic or userId")
      ELSE LET s1 == [s EXCEPT !.keyCalls = @ + 1, !.userId = req.body.userId,
                               !.timeCommitment = TimeCommitmentOf(req.body)]
           IN  IF keyIndex \notin ConfiguredKeys
                 THEN Catch(s1, o, "Missing API key")
                 ELSE GenEnter(Send(Send(s1, o, SyllabusStarted), o,
                                    Notice("Generating syllabus...")),
                               "syllabus", 0)

\* Variant that leaves the connection open after a successful run.
OnCreatedNoClose(s, o, createdCourse) ==
  LET s1 == Send(s, o, CompletedEvent(createdCourse.id))
      s2 == Send(s1, o, Notice("Course generation complete."))
  IN  [s2 EXCEPT !.pc = "done"]

\* Lines 266-268.
OnCreated(s, o, createdCourse) ==
  LET s1 == Send(s, o, CompletedEvent(createdCourse.id))
      s2 == Send(s1, o, Notice("Course generation complete."))
  IN  [Close(s2) EXCEPT !.pc = "done"]

\* ---------------------------------------------------------------- actions
Open(r) == readyState[conn[r]] = "OPEN"

\* The sends and the ws.close() of the step just taken go to `ws`, the socket
\* of the connection whose message handler the run is.
Step(r, s) ==
  /\ run' = [run EXCEPT ![r] = s]
  /\ readyState' = IF s.closeCalls > run[r].closeCalls
                     THEN [readyState EXCEPT ![conn[r]] = "CLOSED"]
                     ELSE readyState
  /\ sentOn' = IF Len(s.emitted) > Len(run[r].emitted)
                 THEN [sentOn EXCEPT ![conn[r]] = @ \cup {r}]
                 ELSE sentOn
  /\ UNCHANGED <<conn, blk, txt>>

\* A request message with any of the timeCommitment texts.
MessageTimed(r) ==
  /\ r \in inbox
  /\ run[r].pc = "idle"
  /\ Open(r)
  /\ \E req \in TimedRequestPool, keyIndex \in 1 .. TOTAL_KEYS :
       Step(r, OnMessage(run[r], Open(r), req, keyIndex))
  /\ inbox' = inbox \ {r}

Message(r) ==
  /\ r \in inbox
  /\ run[r].pc = "idle"
  /\ Open(r)
  /\ \E req \in RequestPool, keyIndex \in 1 .. TOTAL_KEYS :
       Step(r, OnMessage(run[r], Open(r), req, keyIndex))
  /\ inbox' = inbox \ {r}

BackendParses(r) ==
  /\ run[r].pc = "call"
  /\ \E v \in ParsedPool(run[r]) :
       LET s == run[r]
           s1 == [s EXCEPT !.pending = @ \ {<<s.stage, s.idx, s.attempt>>},
                           !.parsed = @ \cup {<<s.stage, s.idx>>}]
       IN  Step(r, Continue(s1, Open(r), v))
  /\ UNCHANGED inbox

\* Variant in which a call is answered with the answer to another run's call.
BackendAnswersCrossed(r, counts, analytics) ==
  /\ run[r].pc = "call"
  /\ \E q \in Runs :
     \E v \in AnswerPool([run[r] EXCEPT !.self = q], counts, analytics) :
       LET s == run[r]
           s1 == [s EXCEPT !.pending = @ \ {<<s.stage, s.idx, s.attempt>>},
                           !.parsed = @ \cup {<<s.stage, s.idx>>}]
       IN  Step(r, Continue(s1, Open(r), v))
  /\ UNCHANGED inbox

\* The backend answers the call in flight, on this attempt, with a value of
\* the prompted shape.
BackendAnswers(r, counts, analytics) ==
  /\ run[r].pc = "call"
  /\ \E v \in AnswerPool(run[r], counts, analytics) :
       LET s == run[r]
           s1 == [s EXCEPT !.pending = @ \ {<<s.stage, s.idx, s.attempt>>},
                           !.parsed = @ \cup {<<s.stage, s.idx>>}]
       IN  Step(r, Continue(s1, Open(r), v))
  /\ UNCHANGED inbox

\* The backend answers the call in flight with the text '{}'.
BackendAnswersEmpty(r) ==
  /\ run[r].pc = "call"
  /\ LET s == run[r]
         s1 == [s EXCEPT !.pending = @ \ {<<s.stage, s.idx, s.attempt>>},
                         !.parsed = @ \cup {<<s.stage, s.idx>>}]
     IN  Step(r, Continue(s1, Open(r), EmptyObject))
  /\ UNCHANGED inbox

\* The backend answers the quiz call in flight with a quiz of any numbering.
BackendAnswersQuiz(r) ==
  /\ run[r].pc = "call"
  /\ run[r].stage = "quiz"
  /\ \E nums \in Numberings :
       LET s == run[r]
           s1 == [s EXCEPT !.pending = @ \ {<<s.stage, s.idx, s.attempt>>},
                           !.parsed = @ \cup {<<s.stage, s.idx>>}]
       IN  Step(r, Continue(s1, Open(r), QuizNumbered(r, s.idx, nums)))
  /\ UNCHANGED inbox

\* The backend answers the quiz call in flight with a quiz whose question
\* has any of the optional fields.
BackendAnswersQuizFields(r) ==
  /\ run[r].pc = "call"
  /\ run[r].stage = "quiz"
  /\ \E v \in QuizFieldsPool(r, run[r].idx) : 
       LET s == run[r]
           s1 == [s EXCEPT !.pending = @ \ {<<s.stage, s.idx, s.attempt>>},
                           !.parsed = @ \cup {<<s.stage, s.idx>>}]
       IN  Step(r, Continue(s1, Open(r), v))
  /\ UNCHANGED inbox

BackendFails(r) ==
  /\ run[r].pc = "call"
  /\ \E kind \in {"backend", "parse"} : Step(r, GenCatch(run[r], Open(r), kind))
  /\ UNCHANGED inbox

\* A failing attempt together with line 47's console.warn, which logs the
\* attempt's number and the cause, whichever it is.
BackendFailsLogged(r) ==
  /\ run[r].pc = "call"
  /\ \E kind \in {"backend", "parse"} :
       Step(r, [GenCatch(run[r], Open(r), kind) EXCEPT
                  !.warned = Append(@, <<run[r].attempt, kind>>)])
  /\ UNCHANGED inbox

TimerFires(r) ==
  /\ run[r].pc = "backoff"
  /\ Step(r, GenLoop([run[r] EXCEPT !.attempt = @ + 1]))
  /\ UNCHANGED inbox

DbResolves(r) ==
  /\ run[r].pc = "db"
  /\ Step(r, OnCreated(run[r], Open(r), [id |-> <<"course", r>>]))
  /\ UNCHANGED inbox

\* Variant that calls db.course.create again when it rejects.
DbRejectsRetry(r) ==
  /\ run[r].pc = "db"
  /\ Step(r, [run[r] EXCEPT !.persisted = Append(@, CourseCreateData(run[r]))])
  /\ UNCHANGED inbox

DbRejects(r) ==
  /\ run[r].pc = "db"
  /\ Step(r, Catch(run[r], Open(r), "PersistenceError"))
  /\ UNCHANGED inbox

ClientCloses(c) ==
  /\ readyState[c] = "OPEN"
  /\ \E r \in Runs : conn[r] = c /\ (r \in inbox \/ run[r].pc # "idle")
  /\ readyState' = [readyState EXCEPT ![c] = "CLOSED"]
  /\ UNCHANGED <<run, conn, sentOn, inbox, blk, txt>>

\* A caller other than the handler: generateValidJsonWithRetries(prompt,
\* model, maxRetries) with an explicit third argument.
DirectCall(r) ==
  /\ run[r].pc = "idle"
  /\ run[r].stage = "direct"
  /\ Step(r, GenEnter(run[r], "direct", 0))
  /\ UNCHANGED inbox

\* The content-block loop and the create mapping applied to one
\* section-content value.
BlkOff == [pc |-> "off"]

BlkInput(v) ==
  [pc |-> "input", input |-> v, self |-> 0, nextId |-> 1,
   lessonTitle |-> <<"lesson", 1>>, allContentBlocks |-> <<>>, threw |-> FALSE,
   emitted |-> <<>>, dropped |-> FALSE, created |-> <<>>]

SeqsUpTo(S, n) == UNION { [1 .. k -> S] : k \in 0 .. n }

SectionContentPool ==
  { [sections |-> ss] : ss \in SeqsUpTo(SectionPool, MaxSections) }
    \cup { EmptyObject }

BlkFlatten ==
  /\ blk.pc = "input"
  /\ blk' = [FlattenAll(blk, TRUE, blk.input) EXCEPT !.pc = "flattened"]
  /\ UNCHANGED <<run, conn, readyState, sentOn, inbox, txt>>

BlkCreate ==
  /\ blk.pc = "flattened"
  /\ ~blk.threw
  /\ blk' = [blk EXCEPT !.pc = "created",
                        !.created = ContentBlocksCreate(blk.allContentBlocks)]
  /\ UNCHANGED <<run, conn, readyState, sentOn, inbox, txt>>

\* The normalization chain applied to a response text, and applied again
\* to its own result.
TxtNormalize ==
  /\ txt.pc = "raw"
  /\ txt' = [pc |-> "once", raw |-> txt.raw, once |-> Normalize(txt.raw)]
  /\ UNCHANGED <<run, conn, readyState, sentOn, inbox, blk>>

TxtRenormalize ==
  /\ txt.pc = "once"
  /\ txt' = [pc |-> "twice", raw |-> txt.raw, once |-> txt.once,
             twice |-> Normalize(txt.once)]
  /\ UNCHANGED <<run, conn, readyState, sentOn, inbox, blk>>

\* --------------------------------------------------------- specifications
Init ==
  /\ run = [r \in Runs |-> IdleRun(r)]
  /\ conn = [r \in Runs |-> 1]
  /\ readyState = [c \in Conns |-> "OPEN"]
  /\ sentOn = [c \in Conns |-> {}]
  /\ inbox = {1}
  /\ blk = BlkOff
  /\ txt = TxtOff

Next ==
  \/ \E r \in Runs : Message(r)
  \/ \E r \in Runs : BackendParses(r)
  \/ \E r \in Runs : BackendFails(r)
  \/ \E r \in Runs : TimerFires(r)
  \/ \E r \in Runs : DbResolves(r)
  \/ \E r \in Runs : DbRejects(r)
  \/ \E c \in Conns : ClientCloses(c)

Spec == Init /\ [][Next]_vars

InitDirect ==
  /\ \E m \in (0 - NegativeRetriesArg) .. MaxRetriesArg :
       run = [r \in Runs |->
                IF r = 1 THEN [IdleRun(r) EXCEPT !.stage = "direct", !.maxRetries = m]
                         ELSE IdleRun(r)]
  /\ conn = [r \in Runs |-> 1]
  /\ readyState = [c \in Conns |-> "OPEN"]
  /\ sentOn = [c \in Conns |-> {}]
  /\ inbox = {}
  /\ blk = BlkOff
  /\ txt = TxtOff

NextDirect ==
  \/ \E r \in Runs : DirectCall(r)
  \/ \E r \in Runs : BackendParses(r)
  \/ \E r \in Runs : BackendFailsLogged(r)
  \/ \E r \in Runs : TimerFires(r)

SpecDirect == InitDirect /\ [][NextDirect]_vars

\* One run whose every await settles: a backend call in flight eventually
\* returns (a value of the prompted shape, or '{}') or fails, a backoff
\* timer eventually fires and the persistence call eventually resolves or
\* rejects.  The client may close its connection at any time.
BackendSettles(r) ==
  \/ BackendFails(r)
  \/ BackendAnswersEmpty(r)
  \/ BackendAnswers(r, 0 .. MaxLiveLessons, {AnalyticsFrom(r, 90, "EXCELLENT")})

DbSettles(r) == DbResolves(r) \/ DbRejects(r)

NextLive ==
  \/ \E r \in Runs : Message(r)
  \/ \E r \in Runs : BackendSettles(r)
  \/ \E r \in Runs : TimerFires(r)
  \/ \E r \in Runs : DbSettles(r)
  \/ \E c \in Conns : ClientCloses(c)

\* A run awaits one thing at a time, so one condition covers its awaits.
Settles(r) == TimerFires(r) \/ DbSettles(r) \/ BackendSettles(r)

Fairness == \A r \in Runs : WF_vars(Settles(r))

SpecLive == Init /\ [][NextLive]_vars /\ Fairness

\* One run whose requests vary in timeCommitment, against a backend that
\* answers every call on its first attempt.
NextAnswered ==
  \/ \E r \in Runs : MessageTimed(r)
  \/ \E r \in Runs :
       BackendAnswers(r, 0 .. MaxBudgetLessons, AnalyticsPool(r))
  \/ \E r \in Runs : DbResolves(r)
  \/ \E r \in Runs : DbRejects(r)

SpecAnswered == Init /\ [][NextAnswered]_vars

\* One run against a backend that answers every call on its first attempt
\* and numbers the questions of a quiz as it likes.
NextQuizzes ==
  \/ \E r \in Runs : Message(r)
  \/ \E r \in Runs :
       BackendAnswers(r, 1 .. MaxQuizLessons, {AnalyticsFrom(r, 90, "EXCELLENT")})
  \/ \E r \in Runs : BackendAnswersQuiz(r)
  \/ \E r \in Runs : DbResolves(r)
  \/ \E r \in Runs : DbRejects(r)

SpecQuizzes == Init /\ [][NextQuizzes]_vars

\* One run against a backend that answers every call on its first attempt
\* and leaves optional fields out of the questions of a quiz as it likes.
NextFields ==
  \/ \E r \in Runs : Message(r)
  \/ \E r \in Runs :
       BackendAnswers(r, 1 .. MaxFieldLessons, {AnalyticsFrom(r, 90, "EXCELLENT")})
  \/ \E r \in Runs : BackendAnswersQuizFields(r)
  \/ \E r \in Runs : DbResolves(r)
  \/ \E r \in Runs : DbRejects(r)

SpecFields == Init /\ [][NextFields]_vars

\* Two request messages, on one connection or on two, against a backend
\* that answers every call on its first attempt.
InitTwo ==
  /\ run = [r \in Runs |-> IdleRun(r)]
  /\ \E c \in Conns : conn = [r \in Runs |-> IF r = 1 THEN 1 ELSE c]
  /\ readyState = [c \in Conns |-> "OPEN"]
  /\ sentOn = [c \in Conns |-> {}]
  /\ inbox = Runs
  /\ blk = BlkOff
  /\ txt = TxtOff

NextTwo ==
  \/ \E r \in Runs : Message(r)
  \/ \E r \in Runs :
       BackendAnswers(r, 0 .. MaxTwoLessons, {AnalyticsFrom(r, 90, "EXCELLENT")})
  \/ \E r \in Runs : DbResolves(r)
  \/ \E r \in Runs : DbRejects(r)
  \/ \E c \in Conns : ClientCloses(c)

SpecTwo == InitTwo /\ [][NextTwo]_vars

InitBlocks ==
  /\ run = [r \in Runs |-> IdleRun(r)]
  /\ conn = [r \in Runs |-> 1]
  /\ readyState = [c \in Conns |-> "OPEN"]
  /\ sentOn = [c \in Conns |-> {}]
  /\ inbox = {}
  /\ \E v \in SectionContentPool : blk = BlkInput(v)
  /\ txt = TxtOff

NextBlocks == BlkFlatten \/ BlkCreate

InitText ==
  /\ run = [r \in Runs |-> IdleRun(r)]
  /\ conn = [r \in Runs |-> 1]
  /\ readyState = [c \in Conns |-> "OPEN"]
  /\ sentOn = [c \in Conns |-> {}]
  /\ inbox = {}
  /\ blk = BlkOff
  /\ \E t \in TextsOf(MaxChunks) : txt = [pc |-> "raw", raw |-> t]

NextText == TxtNormalize \/ TxtRenormalize

SpecText == InitText /\ [][NextText]_vars

SpecBlocks == InitBlocks /\ [][NextBlocks]_vars

\* ------------------------------------------------------------ properties
IsStep(e, st) == "step" \in DOMAIN e /\ e.step = st

CountStep(tr, st) == Cardinality({ i \in 1 .. Len(tr) : IsStep(tr[i], st) })

IsPrefix(a, b) == Len(a) <= Len(b) /\ SubSeq(b, 1, Len(a)) = a

PositionsOf(tr, st) == { i \in 1 .. Len(tr) : IsStep(tr[i], st) }

TerminalPositions(s) ==
  PositionsOf(s.emitted, "completed") \cup PositionsOf(s.emitted, "error")

Exhausted(s) == s.error = "Failed after attempts"

\* Every parsed value has the shape its prompt asked for.
PromptedShape(s) ==
  /\ "lessons" \in DOMAIN s.syllabus
  /\ ~s.threw
  /\ \A p \in 1 .. Len(s.lessons) : "questions" \in DOMAIN s.lessons[p].quizJson

\* A finished run of a well-formed request with a set credential, all of
\* whose backend calls parsed, each on its first attempt, to a value of the
\* prompted shape.
FirstAttemptRun(s) ==
  /\ s.pc = "done"
  /\ s.gens >= 1
  /\ s.calls = Cardinality(s.parsed)
  /\ PromptedShape(s)

\* C1 as stated, on the runs most favourable to it (FirstAttemptRun): the
\* run emits exactly one `completed` event, no `error` event, and makes
\* exactly one persistence call whose lesson list is as long as the
\* syllabus's.  It fails when db.course.create rejects.
C1_FirstAttemptCompletes ==
  \A r \in Runs :
    LET s == run[r]
    IN  FirstAttemptRun(s) =>
          /\ CountStep(s.emitted, "completed") = 1
          /\ CountStep(s.emitted, "error") = 0
          /\ Len(s.persisted) = 1
          /\ Len(s.persisted[1].lessons) = Len(s.syllabus.lessons)

\* C1 amended: such a run makes exactly one persistence call, whose lesson
\* list is as long as the syllabus's; when that call succeeds the run emits
\* exactly one `completed` and no `error` event, and when it is rejected
\* exactly one `error` and no `completed` event.
C1_FirstAttemptPersistsOnce ==
  \A r \in Runs :
    LET s == run[r]
    IN  FirstAttemptRun(s) =>
          /\ Len(s.persisted) = 1
          /\ Len(s.persisted[1].lessons) = Len(s.syllabus.lessons)
          /\ s.error \in {"none", "PersistenceError"}
          /\ s.error = "none" =>
               /\ CountStep(s.emitted, "completed") = 1
               /\ CountStep(s.emitted, "error") = 0
          /\ s.error = "PersistenceError" =>
               /\ CountStep(s.emitted, "completed") = 0
               /\ CountStep(s.emitted, "error") = 1

C1_Witness ==
  \E r \in Runs :
    /\ FirstAttemptRun(run[r])
    /\ run[r].error = "none"
    /\ Len(run[r].syllabus.lessons) >= 2
    /\ CountStep(run[r].emitted, "completed") = 1

\* C2: when a generation call of any stage has used up its attempts, the
\* run is over with no persistence call, no `completed` event and exactly
\* one `error` event; the records of the lessons already completed are
\* not persisted.
C2_ExhaustionAborts ==
  \A r \in Runs :
    LET s == run[r]
    IN  Exhausted(s) =>
          /\ s.pc = "done"
          /\ s.attempt = s.maxRetries
          /\ <<s.stage, s.idx>> \notin s.parsed
          /\ s.persisted = <<>>
          /\ CountStep(s.emitted, "completed") = 0
          /\ CountStep(s.emitted, "error") = 1

C2_Witness ==
  \E r \in Runs :
    /\ Exhausted(run[r])
    /\ run[r].stage = "quiz"
    /\ run[r].idx = 2
    /\ Len(run[r].syllabus.lessons) = 3
    /\ Len(run[r].lessons) = 1
    /\ run[r].persisted = <<>>

\* C3: for maxRetries >= 1, a call of generateValidJsonWithRetries never
\* makes more than maxRetries backend calls; it throws the exhaustion error
\* after exactly maxRetries calls, all of them failed; and it returns a
\* parsed value after exactly k calls when the first k-1 failed and the
\* k-th parsed.
C3_RetryBound ==
  \A r \in Runs :
    LET s == run[r]
    IN  (s.stage = "direct" /\ s.maxRetries >= 1) =>
          /\ s.calls <= s.maxRetries
          /\ s.pc = "threw" =>
               /\ s.calls = s.maxRetries
               /\ s.fails = s.maxRetries
               /\ s.parsed = {}
               /\ Exhausted(s)
          /\ s.pc = "returned" =>
               /\ s.calls = s.fails + 1
               /\ s.parsed = {<<"direct", 0>>}
               /\ s.result \in DirectPool
               /\ s.error = "none"

C3_Witness ==
  \E r \in Runs :
    /\ run[r].stage = "direct"
    /\ run[r].pc = "threw"
    /\ run[r].maxRetries = MAX_RETRIES
    /\ run[r].calls = MAX_RETRIES

\* C4: a run that has not finished has emitted no terminal event; a run
\* that has finished has emitted exactly one (`completed` or `error`), the
\* server has called close exactly once, after that event, and the
\* connection is closed.  This covers the runs some of whose sends were
\* dropped.
C4_OneTerminalThenClose ==
  \A r \in Runs :
    LET s == run[r]
    IN  /\ s.pc # "done" =>
             /\ TerminalPositions(s) = {}
             /\ s.closeCalls = 0
        /\ s.pc = "done" =>
             /\ Cardinality(TerminalPositions(s)) = 1
             /\ s.closeCalls = 1
             /\ \A i \in TerminalPositions(s) : i <= s.closedAt
             /\ readyState[conn[r]] = "CLOSED"

C4_Witness ==
  \E r \in Runs :
    /\ run[r].pc = "done"
    /\ run[r].dropped
    /\ run[r].error = "none"
    /\ CountStep(run[r].emitted, "completed") = 1

MissingField(req) ==
  \/ ~req.parses
  \/ "topic" \notin DOMAIN req.body
  \/ "userId" \notin DOMAIN req.body

\* C5: a request that does not parse, or that lacks topic or userId, gets
\* the `error` event as the only event of its run, with no backend call,
\* no credential selection and no persistence call.
C5_InvalidRequestRejected ==
  \A r \in Runs :
    LET s == run[r]
    IN  (s.pc # "idle" /\ s.stage # "direct" /\ MissingField(s.request)) =>
          /\ s.pc = "done"
          /\ s.emitted = <<ErrorEvent>>
          /\ s.calls = 0
          /\ s.gens = 0
          /\ s.keyCalls = 0
          /\ s.persisted = <<>>

C5_Witness ==
  \E r \in Runs :
    /\ run[r].pc = "done"
    /\ run[r].request.parses
    /\ "userId" \notin DOMAIN run[r].request.body
    /\ run[r].emitted = <<ErrorEvent>>

\* The generation calls of a run over a syllabus of n lessons.
StageInstances(n) ==
  {<<"syllabus", 0>>, <<"postCourse", 0>>}
    \cup ({"context", "sections", "quiz"} \X (1 .. n))

\* C6: the persistence adapter is called at most once, and only when the
\* syllabus stage, the three stages of every lesson and the post-course
\* stage have each produced a parsed result; `completed` is emitted only
\* when that call has returned successfully.
C6_PersistOnceAfterAllStages ==
  \A r \in Runs :
    LET s == run[r]
    IN  /\ Len(s.persisted) <= 1
        /\ Len(s.persisted) = 1 =>
             /\ StageInstances(Len(s.syllabus.lessons)) \subseteq s.parsed
             /\ Len(s.lessons) = Len(s.syllabus.lessons)
        /\ s.pc = "db" => Len(s.persisted) = 1
        /\ CountStep(s.emitted, "completed") >= 1 =>
             /\ Len(s.persisted) = 1
             /\ s.pc = "done"
             /\ s.error = "none"

C6_Witness ==
  \E r \in Runs :
    /\ Len(run[r].persisted) = 1
    /\ Len(run[r].lessons) >= 2
    /\ CountStep(run[r].emitted, "completed") = 1

C7_State ==
  \A r \in Runs :
    LET s == run[r]
    IN  /\ Len(s.persisted) <= 1
        /\ s.error = "PersistenceError" =>
             /\ s.pc = "done"
             /\ Len(s.persisted) = 1
             /\ CountStep(s.emitted, "completed") = 0
             /\ CountStep(s.emitted, "error") = 1
             /\ s.emitted[Len(s.emitted)] = ErrorEvent

C7_Step == \A r \in Runs : IsPrefix(run[r].emitted, run'[r].emitted)

\* C7: when the persistence call fails the run ends with exactly one
\* `error` event and no `completed` event, the call is not made again, and
\* no step ever removes or rewrites an event already sent.
C7_PersistenceFailure == [](C7_State) /\ [][C7_Step]_vars

C7_Witness ==
  \E r \in Runs :
    /\ run[r].error = "PersistenceError"
    /\ CountStep(run[r].emitted, "quiz") >= 1
    /\ CountStep(run[r].emitted, "contentBlock") >= 1

LessonStages == {"context", "sections", "quiz"}

\* The generation calls that come before stage st of lesson i.
Preceding(n, st, i) ==
  CASE st = "syllabus" -> {}
    [] st = "context" -> {<<"syllabus", 0>>} \cup (LessonStages \X (1 .. i - 1))
    [] st = "sections" ->
         {<<"syllabus", 0>>, <<"context", i>>} \cup (LessonStages \X (1 .. i - 1))
    [] st = "quiz" ->
         {<<"syllabus", 0>>, <<"context", i>>, <<"sections", i>>}
           \cup (LessonStages \X (1 .. i - 1))
    [] st = "postCourse" -> {<<"syllabus", 0>>} \cup (LessonStages \X (1 .. n))

\* C8: at most one backend call of a run is in flight, and while the call
\* of stage st of lesson i is in flight exactly the generation calls that
\* come before it have completed: context before section content before
\* quiz within a lesson, and lesson i's quiz before lesson i+1's context.
C8_CallsInOrder ==
  \A r \in Runs :
    LET s == run[r]
    IN  /\ Cardinality(s.pending) <= 1
        /\ s.pc # "call" => s.pending = {}
        /\ \A c \in s.pending :
             /\ c = <<s.stage, s.idx, s.attempt>>
             /\ s.stage # "direct" =>
                  s.parsed =
                    Preceding(IF "lessons" \in DOMAIN s.syllabus
                                THEN Len(s.syllabus.lessons) ELSE 0,
                              c[1], c[2])

C8_Witness ==
  \E r \in Runs :
    /\ <<"context", 2, 1>> \in run[r].pending
    /\ <<"quiz", 1>> \in run[r].parsed

RECURSIVE RawBlocks(_, _)
\* The blocks of sections j.. in section-then-block traversal order.
RawBlocks(sections, j) ==
  IF j > Len(sections)
    THEN <<>>
    ELSE sections[j].contentBlocks \o RawBlocks(sections, j + 1)

PayloadFields == {"text", "code", "math", "graph"}

FieldOfType(ty) ==
  CASE ty = "TEXT" -> "text"
    [] ty = "CODE" -> "code"
    [] ty = "MATH" -> "math"
    [] ty = "GRAPH" -> "graph"
    [] OTHER -> "none"

\* C9: the blocks handed to persistence for a lesson are the blocks of all
\* sections in section-then-block order, numbered 1..n whatever `order`
\* the backend supplied, and the blocks of the lesson carry distinct ids.
C9_BlocksDenselyOrdered ==
  blk.pc = "created" =>
    LET raw == RawBlocks(blk.input.sections, 1)
        made == blk.allContentBlocks
        created == blk.created
    IN  /\ Len(created) = Len(raw)
        /\ Len(made) = Len(raw)
        /\ \A p \in 1 .. Len(raw) :
             /\ created[p].order = p
             /\ created[p].type = Get(raw[p], "type")
             /\ \A f \in PayloadFields :
                  created[p][f] = IF f = FieldOfType(Get(raw[p], "type"))
                                    THEN Get(raw[p], "content") ELSE undefined
        /\ \A p, q \in 1 .. Len(made) : p # q => made[p].id # made[q].id

C9_Witness ==
  /\ blk.pc = "created"
  /\ Len(blk.input.sections) = 3
  /\ \A j \in 1 .. 3 : Len(blk.input.sections[j].contentBlocks) = 2
  /\ Len(blk.created) = 6
  /\ \E p \in 1 .. 6 : blk.allContentBlocks[p].order # p

Populated(b) == { f \in PayloadFields : b[f] # undefined }

\* C10: every content block the pipeline produces, streamed or handed to
\* persistence, has exactly one of text, code, math, graph populated, the
\* one its type selects.
C10_PayloadExclusive ==
  blk.pc \in {"flattened", "created"} =>
    /\ \A p \in 1 .. Len(blk.allContentBlocks) :
         Populated(blk.allContentBlocks[p]) =
           {FieldOfType(blk.allContentBlocks[p].type)}
    /\ \A p \in 1 .. Len(blk.created) :
         Populated(blk.created[p]) = {FieldOfType(blk.created[p].type)}

\* The run has a syllabus with a lesson list.
HasLessons(s) == "lessons" \in DOMAIN s.syllabus

\* The timeCommitment text is a non-empty run of decimal digits.
NumericText(t) == t # <<>> /\ \A k \in 1 .. Len(t) : IsDigit(t[k])

PromptsOf(s, stages) == { p \in s.prompts : p.stage \in stages }

\* C11: for a timeCommitment of h hours and a syllabus of n >= 1 lessons,
\* the context and section-content prompts of every lesson receive
\* (h*60*0.8)/n = 48h/n and the quiz prompt of every lesson receives
\* (h*60*0.2)/n = 12h/n, whatever the lesson's declared duration; for
\* h = 10 and n = 5 the texts received are "96" and "24".
C11_UniformBudgets ==
  \A r \in Runs :
    LET s == run[r]
    IN  (HasLessons(s) /\ Len(s.syllabus.lessons) >= 1 /\ NumericText(s.timeCommitment)) =>
          LET h == DigitsValue(s.timeCommitment)
              n == Len(s.syllabus.lessons)
          IN  /\ \A p \in PromptsOf(s, {"context", "sections"}) :
                   /\ p.timeCommitment = NumberToString(Num(48 * h, n))
                   /\ (h = 10 /\ n = 5) => p.timeCommitment = <<"9", "6">>
              /\ \A p \in PromptsOf(s, {"quiz"}) :
                   /\ p.timeCommitment = NumberToString(Num(12 * h, n))
                   /\ (h = 10 /\ n = 5) => p.timeCommitment = <<"2", "4">>
              /\ \A st \in {"context", "sections", "quiz"} :
                   \A i \in 1 .. Len(s.lessons) :
                     \E p \in PromptsOf(s, {st}) : p.idx = i

C11_Witness ==
  \E r \in Runs :
    /\ run[r].timeCommitment = <<"1", "0">>
    /\ HasLessons(run[r])
    /\ Len(run[r].syllabus.lessons) = 5
    /\ [stage |-> "sections", idx |-> 5, timeCommitment |-> <<"9", "6">>] \in run[r].prompts
    /\ [stage |-> "quiz", idx |-> 5, timeCommitment |-> <<"2", "4">>] \in run[r].prompts
    /\ run[r].syllabus.lessons[1].duration # run[r].syllabus.lessons[5].duration

\* C12: when the request's timeCommitment is unset or is text that does
\* not parse as a number, totalTimeMinutes is 0 and, for n >= 1 lessons,
\* both per-lesson budgets are 0.
C12_UnparseableIsZero ==
  \A r \in Runs :
    LET s == run[r]
    IN  (HasLessons(s) /\ ~NumericText(s.timeCommitment)) =>
          /\ s.totalTimeMinutes = Num(0, 1)
          /\ Len(s.syllabus.lessons) >= 1 =>
               /\ s.lessonTimePerLesson = Num(0, 1)
               /\ s.quizTimePerLesson = Num(0, 1)

\* C13: a syllabus with zero lessons ends the run with an `error` event,
\* no backend call after the syllabus call and no persistence call.
C13_ZeroLessonsFails ==
  \A r \in Runs :
    LET s == run[r]
    IN  (HasLessons(s) /\ Len(s.syllabus.lessons) = 0) =>
          /\ s.pc = "done"
          /\ CountStep(s.emitted, "error") = 1
          /\ s.gens = 1
          /\ s.persisted = <<>>

\* C14: normalizing a normalized text changes nothing:
\* normalize(normalize(t)) = normalize(t) for every text t.
C14_NormalizeIdempotent ==
  txt.pc = "twice" => txt.twice = txt.once

\* The causes for which the handler's catch block runs.
FailureCauses ==
  {"SyntaxError", "Missing topic or userId", "Missing API key",
   "Failed after attempts", "TypeError", "PersistenceError"}

\* C15: a send that fails never fails the run.  A run some of whose sends
\* were dropped ends for one of the causes of a run whose sends all
\* arrived; and when none of its generation calls ran out of attempts and
\* every parsed value had the prompted shape, it has gone through all its
\* stages and made its persistence call.
C15_DroppedSendProceeds ==
  \A r \in Runs :
    LET s == run[r]
    IN  s.dropped =>
          /\ s.error \in FailureCauses \cup {"none"}
          /\ (s.pc = "done" /\ s.gens >= 1 /\ ~Exhausted(s) /\ PromptedShape(s)) =>
               /\ Len(s.persisted) = 1
               /\ StageInstances(Len(s.syllabus.lessons)) \subseteq s.parsed

C15_Witness ==
  \E r \in Runs :
    /\ run[r].dropped
    /\ run[r].pc = "db"
    /\ TerminalPositions(run[r]) = {}
    /\ Len(run[r].lessons) >= 2
    /\ Len(run[r].persisted) = 1

ErrorEventsOf(s) == SelectSeq(s.emitted, LAMBDA e : IsStep(e, "error"))

\* C16: whatever the cause of a failure (request that does not parse,
\* missing field, missing credential, exhausted generation call, malformed
\* stage output, persistence failure), the run sends one `error` event and
\* its payload is the same fixed value, which carries no trace of the cause;
\* a run that has not failed has sent no `error` event.
C16_GenericError ==
  \A r \in Runs :
    LET s == run[r]
    IN  /\ s.error \in FailureCauses \cup {"none"}
        /\ s.error \in FailureCauses => ErrorEventsOf(s) = <<ErrorEvent>>
        /\ s.error = "none" => ErrorEventsOf(s) = <<>>

C16_Witness ==
  \E r \in Runs :
    /\ Exhausted(run[r])
    /\ run[r].stage = "sections"
    /\ CountStep(run[r].emitted, "lesson") = 2
    /\ ErrorEventsOf(run[r]) = <<ErrorEvent>>

InProgress(s) == s.pc \in {"call", "backoff", "db"}

\* C17: no two runs are in progress on the same connection at the same
\* time.
C17_SingleRunPerConnection ==
  \A r1, r2 \in Runs :
    (r1 # r2 /\ conn[r1] = conn[r2]) => ~(InProgress(run[r1]) /\ InProgress(run[r2]))

\* The content blocks of lesson p of run r, as handed to persistence.
OwnBlocks(r, p) ==
  << [order |-> 1, type |-> "TEXT", text |-> <<"prose", r, p>>, code |-> undefined,
      math |-> undefined, graph |-> undefined],
     [order |-> 2, type |-> "CODE", text |-> undefined, code |-> <<"source", r, p>>,
      math |-> undefined, graph |-> undefined] >>

OwnQuestions(r, p) ==
  << [number |-> 1, question |-> <<"q", r, p>>, type |-> "TRUE_FALSE",
      options |-> <<"True", "False">>, marks |-> 10, correctAnswers |-> <<"True">>,
      explanation |-> "Explanation not provided.", rubric |-> <<>>] >>

\* The lesson of the course graph that the answers to run r's own calls
\* for lesson p make up.
OwnLesson(r, p) ==
  [title |-> <<"context", r, p>>, description |-> <<"objective", r, p>>,
   duration |-> <<"weeks", r, p>>, order |-> p - 1,
   contentBlocks |-> OwnBlocks(r, p),
   quizz |-> [title |-> << <<"context", r, p>>, " Quiz" >>, duration |-> 10,
              totalMarks |-> 10, passingMarks |-> 6, isCompleted |-> FALSE,
              gainedMarks |-> 0, timeTaken |-> 0, questions |-> OwnQuestions(r, p)]]

OwnCourse(r, n) ==
  [title |-> <<"course", r>>, description |-> <<"about", r>>, user |-> "user",
   lessons |-> [p \in 1 .. n |-> OwnLesson(r, p)],
   summary |-> <<"summary", r>>, keyPoints |-> <<"keyPoints", r>>,
   analytics |-> AnalyticsFrom(r, 90, "EXCELLENT")]

\* An event of run r carries only the answers to r's own calls.
OwnEvent(r, e) ==
  IF "step" \notin DOMAIN e THEN TRUE
  ELSE CASE e.step = "syllabus" /\ e.status = "completed" ->
              e.data = SyllabusFrom(r, Len(e.data.lessons))
         [] e.step = "lesson" -> e.data.title[2] = r
         [] e.step = "contentBlock" ->
              /\ e.lessonTitle[2] = r
              /\ e.sectionTitle[2] = r
              /\ e.contentBlock.id[1] = r
              /\ LET own == OwnBlocks(r, e.lessonTitle[3])
                      k == IF e.contentBlock.type = "TEXT" THEN 1 ELSE 2
                  IN  \A f \in PayloadFields : e.contentBlock[f] = own[k][f]
         [] e.step = "quiz" -> e.data = QuizFrom(r, e.data.title[3])
         [] e.step = "completed" -> e.courseId = <<"course", r>>
         [] OTHER -> TRUE

\* C18: whatever the interleaving of two runs, the events of a run are
\* handed only to the socket of its own connection, they carry only the
\* answers to its own calls, and the course graph it hands to persistence
\* is the one made up of the answers to its own calls.
C18_RunsDoNotInterfere ==
  \A r \in Runs :
    LET s == run[r]
    IN  /\ \A c \in Conns : r \in sentOn[c] => c = conn[r]
        /\ \A k \in 1 .. Len(s.emitted) : OwnEvent(r, s.emitted[k])
        /\ Len(s.persisted) <= 1
        /\ Len(s.persisted) = 1 =>
             s.persisted[1] = OwnCourse(r, Len(s.syllabus.lessons))

C18_Witness ==
  /\ conn[1] # conn[2]
  /\ \A r \in Runs :
       /\ Len(run[r].persisted) = 1
       /\ Len(run[r].persisted[1].lessons) = 1
       /\ CountStep(run[r].emitted, "completed") = 1
  /\ sentOn = [c \in Conns |-> {c}]

\* The tagged events of a run.
Tagged(s) == SelectSeq(s.emitted, LAMBDA e : "step" \in DOMAIN e)

\* The tagged events of the pipeline: all but the `error` event.
Progress(s) == SelectSeq(Tagged(s), LAMBDA e : e.step # "error")

\* The last `lesson started` or `quiz completed` before position i, or 0.
LastMark(T, i) ==
  LET marks == { j \in 1 .. i - 1 : T[j].step \in {"lesson", "quiz"} }
  IN  IF marks = {} THEN 0 ELSE CHOOSE j \in marks : \A k \in marks : k <= j

\* C19: in the events of a run that has started its pipeline,
\* `syllabus started` is the first tagged event and `syllabus completed`,
\* when there is one, the second; a `lesson started` comes after
\* `syllabus completed` and directly opens the run's lessons or follows
\* the previous lesson's `quiz completed`; a `contentBlock` and a
\* `quiz completed` follow the `lesson started` of their lesson with no
\* other lesson's start and no quiz in between; `completed` is last and
\* follows one `lesson started` and one `quiz completed` per lesson of the
\* syllabus.
C19_EventOrder ==
  \A r \in Runs :
    LET s == run[r]
        T == Progress(s)
    IN  /\ T # <<>> => Tagged(s)[1] = SyllabusStarted
        /\ \A i \in 1 .. Len(T) :
             LET e == T[i]
                 j == LastMark(T, i)
             IN  /\ e = SyllabusStarted => i = 1
                 /\ (e.step = "syllabus" /\ e.status = "completed") => i = 2
                 /\ e.step = "lesson" =>
                      /\ i > 2
                      /\ T[2].step = "syllabus" /\ T[2].status = "completed"
                      /\ j = 0 \/ T[j].step = "quiz"
                      /\ e.data.title =
                           s.syllabus.lessons[CountStep(SubSeq(T, 1, i), "lesson")].title
                 /\ e.step = "contentBlock" =>
                      /\ j > 0
                      /\ T[j].step = "lesson"
                      /\ e.lessonTitle = T[j].data.title
                 /\ e.step = "quiz" =>
                      /\ j > 0
                      /\ T[j].step = "lesson"
                 /\ e.step = "completed" =>
                      /\ i = Len(T)
                      /\ CountStep(T, "lesson") = Len(s.syllabus.lessons)
                      /\ CountStep(T, "quiz") = Len(s.syllabus.lessons)

C19_Witness ==
  \E r \in Runs :
    /\ CountStep(run[r].emitted, "completed") = 1
    /\ CountStep(run[r].emitted, "quiz") = 3
    /\ CountStep(run[r].emitted, "contentBlock") >= 6

\* The banding of the post-course prompt.
GradeOf(score) ==
  IF score >= 85 THEN "EXCELLENT"
  ELSE IF score >= 70 THEN "GOOD"
  ELSE IF score >= 50 THEN "AVERAGE"
  ELSE "NEEDS_IMPROVEMENT"

\* C20: the analytics of every course handed to persistence has the grade
\* its averageScore falls into: EXCELLENT for 90, NEEDS_IMPROVEMENT for 45,
\* whatever grade the backend returned.
C20_GradeMatchesScore ==
  \A r \in Runs :
    \A k \in 1 .. Len(run[r].persisted) :
      LET analytics == run[r].persisted[k].analytics
      IN  analytics.grade = GradeOf(analytics.averageScore)

\* C21: in every quiz handed to persistence the questions' numbers are
\* exactly 1 .. m, m being the number of questions: none missing, none twice.
C21_QuestionNumbersDense ==
  \A r \in Runs :
    \A k \in 1 .. Len(run[r].persisted) :
      \A p \in 1 .. Len(run[r].persisted[k].lessons) :
        LET questions == run[r].persisted[k].lessons[p].quizz.questions
        IN  /\ {questions[q].number : q \in 1 .. Len(questions)}
                 = 1 .. Len(questions)
            /\ \A q1, q2 \in 1 .. Len(questions) :
                 questions[q1].number = questions[q2].number => q1 = q2

\* C22: with every backend call and the persistence call settling, every
\* run that has started eventually has sent a terminal event and closed its
\* connection.
Terminated(r) ==
  /\ run[r].pc = "done"
  /\ TerminalPositions(run[r]) # {}
  /\ run[r].closeCalls = 1
  /\ readyState[conn[r]] = "CLOSED"

C22_EveryRunTerminates ==
  \A r \in Runs : (run[r].pc # "idle") ~> Terminated(r)

\* A run that ended after a retry inside the lesson loop.
C22_Witness ==
  \E r \in Runs :
    /\ Terminated(r)
    /\ run[r].calls > Cardinality(run[r].parsed)
    /\ Len(run[r].lessons) >= 1

\* The place of a stage instance in the order of the pipeline.
Rank(s) ==
  CASE s.stage = "context" -> 3 * s.idx - 2
    [] s.stage = "sections" -> 3 * s.idx - 1
    [] s.stage = "quiz" -> 3 * s.idx
    [] s.stage = "postCourse" -> 3 * Len(s.syllabus.lessons) + 1
    [] OTHER -> 0

\* C23: the backend calls of a run are made one at a time; each call is for
\* the stage instance of the call before it (a retry, made only while that
\* instance has not parsed) or for a later stage instance, never for an
\* earlier one; so the calls of one stage instance are contiguous.
C23_RetryScope ==
  [][\A r \in Runs :
       LET s == run[r]
           t == run'[r]
       IN  /\ t.calls \in {s.calls, s.calls + 1}
           /\ <<t.stage, t.idx>> # <<s.stage, s.idx>> => t.calls = s.calls + 1
           /\ (t.calls = s.calls + 1 /\ s.calls > 0) =>
                /\ Rank(t) >= Rank(s)
                /\ Rank(t) = Rank(s) =>
                     /\ <<t.stage, t.idx>> = <<s.stage, s.idx>>
                     /\ t.attempt = s.attempt + 1
                /\ <<t.stage, t.idx>> \notin t.parsed]_vars

\* The post-course call being made after retries and a full lesson.
C23_Witness ==
  \E r \in Runs :
    /\ run[r].pc = "call"
    /\ run[r].stage = "postCourse"
    /\ Len(run[r].lessons) >= 1
    /\ run[r].calls > run[r].gens

\* 1 + 2 + ... + n.
SumTo(n) == (n * (n + 1)) \div 2

\* C24: inside one generation call the wait requested after failed attempt
\* i < maxRetries is i * BASE_DELAY; the last failed attempt throws without
\* a wait, so on exhaustion the waits add up to
\* BASE_DELAY * (1 + ... + (maxRetries - 1)) and the error carries maxRetries.
C24_LinearBackoff ==
  \A r \in Runs :
    LET s == run[r]
    IN  (s.stage = "direct" /\ s.maxRetries >= 1) =>
          /\ s.pc = "backoff" =>
               /\ s.attempt < s.maxRetries
               /\ s.fails = s.attempt
               /\ s.delay = s.attempt * BASE_DELAY
               /\ s.waited = BASE_DELAY * SumTo(s.attempt)
          /\ s.pc = "call" => s.waited = BASE_DELAY * SumTo(s.attempt - 1)
          /\ s.pc = "threw" =>
               /\ s.fails = s.maxRetries
               /\ s.waited = BASE_DELAY * SumTo(s.maxRetries - 1)
               /\ s.delay = BASE_DELAY * (s.maxRetries - 1)
               /\ s.errorAttempts = s.maxRetries

\* A generation call of three or more attempts that has exhausted them.
C24_Witness ==
  \E r \in Runs :
    /\ run[r].stage = "direct"
    /\ run[r].pc = "threw"
    /\ run[r].maxRetries >= 3
    /\ run[r].waited = BASE_DELAY * SumTo(run[r].maxRetries - 1)

\* The kinds of failure logged by a generation call.
KindsWarned(s) == { s.warned[k][2] : k \in 1 .. Len(s.warned) }

\* C25: a call that throws and a call that returns unparseable text are
\* handled alike: the k-th failure of either kind is the failure of attempt
\* k, both kinds lead from a call to the same next state (the same wait or
\* the same exhaustion), and every mixture of maxRetries failures ends in
\* the one exhaustion failure.
C25_FailureKindsAlike ==
  \A r \in Runs :
    LET s == run[r]
    IN  (s.stage = "direct" /\ s.maxRetries >= 1) =>
          /\ Len(s.warned) = s.fails
          /\ \A k \in 1 .. Len(s.warned) : s.warned[k][1] = k
          /\ s.pc = "call" =>
               /\ s.fails = s.attempt - 1
               /\ [GenCatch(s, Open(r), "backend") EXCEPT !.lastErr = "none"]
                    = [GenCatch(s, Open(r), "parse") EXCEPT !.lastErr = "none"]
          /\ s.pc = "backoff" => s.delay = BASE_DELAY * Len(s.warned)
          /\ s.pc = "threw" =>
               /\ Len(s.warned) = s.maxRetries
               /\ Exhausted(s)
               /\ s.errorAttempts = s.maxRetries
               /\ s.waited = BASE_DELAY * SumTo(s.maxRetries - 1)

\* A generation call exhausted by failures of both kinds.
C25_Witness ==
  \E r \in Runs :
    /\ run[r].stage = "direct"
    /\ run[r].pc = "threw"
    /\ KindsWarned(run[r]) = {"backend", "parse"}

\* A run without the bookkeeping of its retry loop: what is left is what
\* the client and the database can see and what the handler goes on from.
Forget(s) ==
  [s EXCEPT !.attempt = 0, !.calls = 0, !.waited = 0, !.delay = 0, !.fails = 0,
            !.lastErr = "none", !.warned = <<>>, !.pending = {}]

\* The call in flight as it would stand on its first attempt.
OnFirstAttempt(s) ==
  [s EXCEPT !.attempt = 1, !.waited = 0, !.delay = 0, !.fails = 0,
            !.lastErr = "none", !.warned = <<>>,
            !.pending = {<<s.stage, s.idx, 1>>}]

\* The state a call in flight leads to when it parses to v.
Resolved(s, o, v) ==
  Continue([s EXCEPT !.pending = @ \ {<<s.stage, s.idx, s.attempt>>},
                     !.parsed = @ \cup {<<s.stage, s.idx>>}], o, v)

\* C26: failures recovered inside the attempt budget do not show: a failed
\* attempt that is followed by a wait, and the wait itself, send nothing,
\* persist nothing and change nothing the handler goes on from; and a call
\* that parses to a value on a later attempt leads to the events, the
\* persistence payload and the handler state it would lead to had it
\* parsed to that value on its first attempt.
C26_RecoveredFailuresInvisible ==
  [][\A r \in Runs :
       LET s == run[r]
           t == run'[r]
       IN  /\ t # s /\ ((s.pc = "call" /\ t.pc = "backoff") \/ s.pc = "backoff") =>
                /\ Forget([t EXCEPT !.pc = s.pc]) = Forget(s)
                /\ sentOn' = sentOn
                /\ readyState' = readyState
           /\ s.pc = "call" =>
                /\ ParsedPool(OnFirstAttempt(s)) = ParsedPool(s)
                /\ \A v \in ParsedPool(s), o \in BOOLEAN :
                     Forget(Resolved(s, o, v))
                       = Forget(Resolved(OnFirstAttempt(s), o, v))]_vars

\* A run that completed although some of its calls failed before parsing.
C26_Witness ==
  \E r \in Runs :
    /\ run[r].pc = "done"
    /\ PositionsOf(run[r].emitted, "completed") # {}
    /\ Len(run[r].persisted) = 1
    /\ Len(run[r].lessons) >= 1
    /\ run[r].calls > Cardinality(run[r].parsed)

\* C27: a run whose credential slot is unset has picked a slot once, has
\* made no backend call and no persistence call, and all it has sent is the
\* one error event, after which it closed the connection.
C27_UnsetCredentialFails ==
  \A r \in Runs :
    run[r].error = "Missing API key" =>
      /\ run[r].pc = "done"
      /\ run[r].emitted = <<ErrorEvent>>
      /\ run[r].keyCalls = 1
      /\ run[r].gens = 0
      /\ run[r].calls = 0
      /\ run[r].prompts = {}
      /\ run[r].persisted = <<>>
      /\ run[r].closeCalls = 1
      /\ run[r].closedAt = 1

\* A well-formed request whose pick landed on the unset slot.
C27_Witness ==
  \E r \in Runs :
    /\ run[r].error = "Missing API key"
    /\ run[r].request.parses
    /\ ~Falsy(Get(run[r].request.body, "topic"))
    /\ run[r].keyCalls = 1

\* A run without its record of discarded sends.
Undropped(s) == [s EXCEPT !.dropped = FALSE]

\* C28: a client closing the connection changes nothing in the run, and
\* whatever the run does next (the continuation of a parsed call, the catch
\* branch of a failed attempt, the end of the persistence call) it does the
\* same with the connection closed as with it open, except that what it
\* sends is discarded.
C28_DisconnectDoesNotInterrupt ==
  [][/\ (readyState' # readyState
          /\ \A q \in Runs : run'[q].closeCalls = run[q].closeCalls) => run' = run
     /\ \A r \in Runs :
       LET s == run[r]
       IN  /\ s.pc = "call" =>
                /\ \A v \in ParsedPool(s) :
                     Undropped(Resolved(s, FALSE, v)) = Undropped(Resolved(s, TRUE, v))
                /\ \A kind \in {"backend", "parse"} :
                     Undropped(GenCatch(s, FALSE, kind))
                       = Undropped(GenCatch(s, TRUE, kind))
           /\ s.pc = "backoff" => TimerFires(r) \/ run'[r] = s
           /\ s.pc = "db" =>
                /\ Undropped(OnCreated(s, FALSE, [id |-> <<"course", r>>]))
                     = Undropped(OnCreated(s, TRUE, [id |-> <<"course", r>>]))
                /\ Undropped(Catch(s, FALSE, "PersistenceError"))
                     = Undropped(Catch(s, TRUE, "PersistenceError"))]_vars

\* The persistence call of a run with a lesson and a retried call, made
\* after the client closed the connection.
C28_Witness ==
  \E r \in Runs :
    /\ readyState[conn[r]] = "CLOSED"
    /\ run[r].closeCalls = 0
    /\ run[r].dropped
    /\ run[r].pc = "db"
    /\ Len(run[r].persisted) = 1
    /\ Len(run[r].lessons) >= 1
    /\ run[r].calls > run[r].gens

\* C29: no message follows a terminal event: wherever a `completed` or an
\* `error` event stands among the messages of a run, it is the last of them.
C29_TerminalEventLast ==
  \A r \in Runs :
    \A p \in TerminalPositions(run[r]) : p = Len(run[r].emitted)

\* C30: the list of lesson records only grows at its end and by one record
\* at a time: the record of lesson i is appended by the step in which the
\* quiz call of lesson i parses, as the i-th record, carrying the title of
\* the syllabus's i-th lesson and the parsed quiz; every other step leaves
\* the list as it is.
C30_LessonsAppendOnly ==
  [][\A r \in Runs :
       LET s == run[r]
           t == run'[r]
       IN  /\ IsPrefix(s.lessons, t.lessons)
           /\ Len(t.lessons) <= Len(s.lessons) + 1
           /\ Len(t.lessons) = Len(s.lessons) + 1 =>
                /\ s.pc = "call"
                /\ s.stage = "quiz"
                /\ <<"quiz", s.idx>> \in t.parsed \ s.parsed
                /\ s.idx = Len(t.lessons)
                /\ t.lessons[s.idx].lessonTitle
                     = Get(s.syllabus.lessons[s.idx], "title")
                /\ t.lessons[s.idx].context = s.context
                /\ t.lessons[s.idx].allContentBlocks = s.allContentBlocks
                /\ t.lessons[s.idx].quizJson \in ParsedPool(s)
           /\ (s.pc = "call" /\ s.stage = "quiz" /\ t.parsed # s.parsed) =>
                Len(t.lessons) = Len(s.lessons) + 1]_vars

\* A run that has appended the records of two lessons.
C30_Witness ==
  \E r \in Runs :
    /\ Len(run[r].lessons) >= 2
    /\ run[r].stage = "context"
    /\ run[r].idx = 3

\* The request of the run leaves personalization.timeCommitment unset.
TimeUnset(s) ==
  /\ s.request # NoValue
  /\ s.request.parses
  /\ \/ "personalization" \notin DOMAIN s.request.body
     \/ "timeCommitment" \notin DOMAIN s.request.body.personalization

\* C31: when the request leaves timeCommitment unset, the time line of
\* every prompt built by the run, those of the lesson stages included,
\* shows the placeholder.
C31_UnsetTimeShowsPlaceholder ==
  \A r \in Runs :
    TimeUnset(run[r]) =>
      \A p \in run[r].prompts : Render(p.timeCommitment, Flexible) = Flexible

\* C32: a streamed contentBlock event carries the order the backend gave
\* the block, or 0 when it gave none, together with the block's id; the
\* block handed to persistence carries its position in the lesson's
\* flattened sequence as order, whatever the backend gave, and no id.
C32_StreamedAndPersistedOrder ==
  (blk.pc \in {"flattened", "created"} /\ ~blk.threw) =>
    LET raw == RawBlocks(blk.input.sections, 1)
    IN  /\ Len(blk.emitted) = Len(raw)
        /\ \A p \in 1 .. Len(raw) :
             LET streamed == blk.emitted[p].contentBlock
             IN  /\ streamed.order = IF "order" \in DOMAIN raw[p]
                                       THEN raw[p].order ELSE 0
                 /\ streamed.id = blk.allContentBlocks[p].id
                 /\ streamed = blk.allContentBlocks[p]
        /\ blk.pc = "created" =>
             /\ Len(blk.created) = Len(raw)
             /\ \A p \in 1 .. Len(raw) :
                  /\ blk.created[p].order = p
                  /\ "id" \notin DOMAIN blk.created[p]
                  /\ blk.created[p].type = blk.emitted[p].contentBlock.type

\* Blocks created from a response in which one block has a hint that is
\* not its position and another has no hint.
C32_Witness ==
  /\ blk.pc = "created"
  /\ \E p \in 1 .. Len(blk.created) :
       /\ blk.emitted[p].contentBlock.order \notin {0, p}
       /\ blk.created[p].order = p
  /\ \E p \in 1 .. Len(blk.created) :
       /\ blk.emitted[p].contentBlock.order = 0
       /\ "order" \notin DOMAIN RawBlocks(blk.input.sections, 1)[p]

\* C33: a generation call with maxRetries of 0 or less makes no backend
\* call and sets no timer, does not throw, and resolves with no value.
C33_NoAttemptsReturnsNothing ==
  \A r \in Runs :
    LET s == run[r]
    IN  (s.stage = "direct" /\ s.maxRetries <= 0) =>
          /\ s.pc \in {"idle", "returned"}
          /\ s.calls = 0
          /\ s.pending = {}
          /\ s.fails = 0
          /\ s.waited = 0
          /\ s.delay = 0
          /\ s.error = "none"
          /\ s.errorAttempts = 0
          /\ s.result = NoValue

\* A call with a negative maxRetries that has returned.
C33_Witness ==
  \E r \in Runs :
    /\ run[r].stage = "direct"
    /\ run[r].maxRetries < 0
    /\ run[r].pc = "returned"
    /\ run[r].gens = 1

\* The generation calls of a run over a syllabus of n lessons.
CallsFor(n) == 3 * n + 2

\* C34: a run over a syllabus of n lessons never makes more than 3n + 2
\* generation calls nor more than MAX_RETRIES * (3n + 2) backend calls, and
\* a run that completed made exactly 3n + 2 generation calls and between
\* 3n + 2 and MAX_RETRIES * (3n + 2) backend calls; before the syllabus has
\* parsed there is the one generation call with its MAX_RETRIES attempts.
C34_CallCount ==
  \A r \in Runs :
    LET s == run[r]
    IN  /\ s.calls <= MAX_RETRIES * s.gens
        /\ s.gens <= s.calls
        /\ ~HasLessons(s) => s.gens <= 1
        /\ HasLessons(s) =>
             LET n == Len(s.syllabus.lessons)
             IN  /\ s.gens <= CallsFor(n)
                 /\ s.calls <= MAX_RETRIES * CallsFor(n)
                 /\ PositionsOf(s.emitted, "completed") # {} =>
                      /\ s.gens = CallsFor(n)
                      /\ s.calls >= CallsFor(n)

\* A completed run over one lesson in which every generation call needed
\* all of its attempts.
C34_Witness ==
  \E r \in Runs :
    /\ PositionsOf(run[r].emitted, "completed") # {}
    /\ Len(run[r].syllabus.lessons) = 1
    /\ run[r].calls = MAX_RETRIES * CallsFor(1)

\* The blocks of lesson i of run r as the block loop builds them, without
\* their ids.
BlocksOfLesson(r, i) ==
  LET raw == RawBlocks(SectionsFrom(r, i).sections, 1)
  IN  [k \in 1 .. Len(raw) |-> MakeBlock(raw[k], 0)]

Anonymous(blocks) == [k \in 1 .. Len(blocks) |-> [blocks[k] EXCEPT !.id = 0]]

IdsOf(blocks) == { blocks[k].id : k \in 1 .. Len(blocks) }

\* C35: the quiz prompt of lesson i is handed the blocks flattened from the
\* section content of lesson i and no other: prompts of different lessons
\* share no block, and the blocks persisted for lesson i are those of
\* lesson i alone.
C35_QuizPromptOwnBlocks ==
  \A r \in Runs :
    LET s == run[r]
    IN  /\ \A q \in s.quizBlocks :
             /\ Len(q.contentBlocks) = Len(BlocksOfLesson(r, q.idx))
             /\ Anonymous(q.contentBlocks) = BlocksOfLesson(r, q.idx)
        /\ \A q1, q2 \in s.quizBlocks :
             q1.idx # q2.idx =>
               IdsOf(q1.contentBlocks) \cap IdsOf(q2.contentBlocks) = {}
        /\ \A k \in 1 .. Len(s.persisted) :
             \A i \in 1 .. Len(s.persisted[k].lessons) :
               LET created == s.persisted[k].lessons[i].contentBlocks
               IN  /\ Len(created) = Len(BlocksOfLesson(r, i))
                   /\ created = ContentBlocksCreate(BlocksOfLesson(r, i))

\* The persistence call of a run of two lessons or more, each with its quiz
\* prompt built.
C35_Witness ==
  \E r \in Runs :
    /\ Len(run[r].persisted) = 1
    /\ Len(run[r].persisted[1].lessons) >= 2
    /\ \E q \in run[r].quizBlocks : q.idx = 2 /\ Len(q.contentBlocks) = 2

\* The lesson an event belongs to: the number of lessons started before it.
LessonAt(tr, p) == Cardinality({ j \in 1 .. p : IsStep(tr[j], "lesson") })

\* The positions of the contentBlock events of lesson i.
StreamedAt(tr, i) ==
  { p \in PositionsOf(tr, "contentBlock") : LessonAt(tr, p) = i }

\* C36: in a run that completed, for every lesson the contentBlock events
\* are as many as the blocks persisted for the lesson, the k-th event of the
\* lesson carries the type and payload of the k-th persisted block, and no
\* two events of the run carry the same block.
C36_StreamedEqualsPersisted ==
  \A r \in Runs :
    LET s == run[r]
        tr == s.emitted
    IN  PositionsOf(tr, "completed") # {} =>
          /\ \A p1, p2 \in PositionsOf(tr, "contentBlock") :
               tr[p1].contentBlock.id = tr[p2].contentBlock.id => p1 = p2
          /\ \A p \in PositionsOf(tr, "contentBlock") :
               LessonAt(tr, p) \in 1 .. Len(s.persisted[1].lessons)
          /\ \A i \in 1 .. Len(s.persisted[1].lessons) :
               LET created == s.persisted[1].lessons[i].contentBlocks
                   at == StreamedAt(tr, i)
               IN  /\ Cardinality(at) = Len(created)
                   /\ \A p \in at :
                        LET k == Cardinality({ p2 \in at : p2 <= p })
                            streamed == tr[p].contentBlock
                        IN  /\ streamed.type = created[k].type
                            /\ \A f \in PayloadFields : streamed[f] = created[k][f]

\* A completed run of two lessons, each with blocks from two sections.
C36_Witness ==
  \E r \in Runs :
    /\ PositionsOf(run[r].emitted, "completed") # {}
    /\ Len(run[r].persisted[1].lessons) = 2
    /\ Len(run[r].persisted[1].lessons[1].contentBlocks) = 3
    /\ Len(run[r].persisted[1].lessons[2].contentBlocks) = 3
    /\ Cardinality(PositionsOf(run[r].emitted, "contentBlock")) = 6

\* C37: in the persistence call the i-th lesson has order i - 1, the
\* duration of the syllabus's i-th lesson as the backend gave it, and the
\* title and objective of the lesson's context as title and description,
\* not the title of the syllabus's lesson.
C37_LessonMapping ==
  \A r \in Runs :
    \A k \in 1 .. Len(run[r].persisted) :
      LET lessons == run[r].persisted[k].lessons
          stubs == run[r].syllabus.lessons
      IN  /\ Len(lessons) = Len(stubs)
          /\ \A i \in 1 .. Len(lessons) :
               /\ lessons[i].order = i - 1
               /\ lessons[i].duration = stubs[i].duration
               /\ lessons[i].duration = LessonStubFrom(r, i).duration
               /\ lessons[i].title = ContextFrom(r, i).title
               /\ lessons[i].description = ContextFrom(r, i).objective
               /\ lessons[i].title # stubs[i].title

\* A persistence call with three lessons or more.
C37_Witness ==
  \E r \in Runs :
    /\ Len(run[r].persisted) = 1
    /\ Len(run[r].persisted[1].lessons) >= 3
    /\ run[r].persisted[1].lessons[3].order = 2

\* C38: every question handed to persistence has the options,
\* correctAnswers, rubric and explanation the backend returned, where it
\* returned them, and the empty list, or the default text for the
\* explanation, where it did not; every quiz is created not completed, with
\* no marks gained and no time taken, and titled after the lesson's context
\* whatever title the backend gave the quiz.
C38_QuizDefaults ==
  \A r \in Runs :
    \A k \in 1 .. Len(run[r].persisted) :
      \A i \in 1 .. Len(run[r].persisted[k].lessons) :
        LET quizz == run[r].persisted[k].lessons[i].quizz
            quizJson == run[r].lessons[i].quizJson
        IN  /\ quizz.isCompleted = FALSE
            /\ quizz.gainedMarks = 0
            /\ quizz.timeTaken = 0
            /\ quizz.title = <<ContextFrom(r, i).title, " Quiz">>
            /\ quizz.title # quizJson.title
            /\ Len(quizz.questions) = Len(quizJson.questions)
            /\ \A p \in 1 .. Len(quizz.questions) :
                 LET q == quizJson.questions[p]
                     created == quizz.questions[p]
                 IN  /\ \A f \in {"options", "correctAnswers", "rubric"} :
                          created[f] = IF f \in DOMAIN q THEN q[f] ELSE <<>>
                     /\ created.explanation =
                          IF "explanation" \in DOMAIN q
                            THEN q.explanation
                            ELSE "Explanation not provided."

\* A persistence call with a question that has none of the optional fields
\* and a question that has them all, its explanation being the empty text.
C38_Witness ==
  \E r \in Runs :
    /\ Len(run[r].persisted) = 1
    /\ Len(run[r].lessons) = 2
    /\ DOMAIN run[r].lessons[1].quizJson.questions[1] \cap OptionalFields = {}
    /\ OptionalFields \subseteq DOMAIN run[r].lessons[2].quizJson.questions[1]
    /\ run[r].persisted[1].lessons[2].quizz.questions[1].explanation = ""

====
